---- MODULE Spec2Model ----
(***************************************************************************)
(* Rewise server (src/index.js, revision of lines 379-1803): the REST      *)
(* handlers as atomic actions over the MongoDB collections users, lessons, *)
(* favorites and reports.  Every action is one HTTP request handled from   *)
(* the first middleware to the response; `resp` holds the request and the  *)
(* response of the last request handled.                                   *)
(***************************************************************************)
EXTENDS Integers, FiniteSets, Sequences, TLC

\* ------------------------------------------------------------------ bounds
\* ObjectIds the lessons collection hands out (insertedId), never reused.
MaxLessons == 3
\* ObjectIds the users collection hands out, never reused.
MaxUsers == 3
\* Lessons created in the behaviours of SpecAccess.
MaxAccessLessons == 1
\* Lessons created in the behaviours of SpecLike.
MaxLikeLessons == 2
\* Lessons created in the behaviours of SpecFav.
MaxFavLessons == 1
\* ObjectIds the reports collection hands out, never reused.
MaxReports == 2
\* Lessons created in the behaviours of SpecMod.
MaxModLessons == 2
\* Lessons created in the behaviours of SpecIdent.
MaxIdentLessons == 1
\* Lessons created in the behaviours of SpecAuth.
MaxAuthLessons == 1
\* Lessons created in the behaviours of SpecAdmin.
MaxAdminLessons == 1
\* Lessons created in the behaviours of SpecShelf.
MaxShelfLessons == 2
\* The favorites records of one caller and lesson up to which the
\* behaviours of SpecFavRace start requests.
MaxFavRecords == 2
\* Lessons created in the behaviours of SpecPremium.
MaxPremiumLessons == 1
\* Lessons created in the behaviours of SpecExposure.
MaxExposureLessons == 2
\* The likesCount up to which the behaviours of SpecLikeRace start requests.
MaxLikesCount == 2
\* The store calls GET /api/lessons/:id makes (lesson, caller for
\* visibility, caller for premium, author, author's lesson count); a request
\* whose first MaxStoreOps store calls succeed is one the store never fails.
MaxStoreOps == 5

\* ------------------------------------------------------------- value sets
AdminEmail == "root@x.com"
Emails == {AdminEmail, "a@x.com", "b@x.com"}

\* JavaScript undefined / null in a request body or an event.
Undefined == "<undefined>"

LessonIds == 1..MaxLessons
UserIds == 1..MaxUsers

\* An id as it comes in the URL: the 24 hex digits of ObjectId n written in
\* lower or in upper case, or a string that is no ObjectId at all.
Malformed == [n |-> 0, case |-> "malformed"]
IdStrings == [n : 1..(MaxLessons + 1), case : {"lower", "upper"}] \cup {Malformed}
LowerIdStrings == {s \in IdStrings : s.case # "upper"}
UserIdStrings == [n : UserIds, case : {"lower"}] \cup {Malformed}
ReportIds == 1..MaxReports
ReportIdStrings == [n : ReportIds, case : {"lower"}] \cup {Malformed}

\* A query parameter that carries an id, or is not given at all.
NoId == [n |-> 0, case |-> "absent"]

\* ObjectId.isValid(s)
IsValid(s) == s.case # "malformed"

\* new ObjectId(s): hex digits are read case-insensitively.
ObjectIdOf(s) == s.n

\* The Authorization header of a request.
NoHeader == [kind |-> "absent", token |-> Undefined]
BasicHeader == [kind |-> "basic", token |-> Undefined]
BadBearer == [kind |-> "bearer", token |-> "expired-token"]
Bearer(e) == [kind |-> "bearer", token |-> e]
Headers == {NoHeader, BasicHeader, BadBearer} \cup {Bearer(e) : e \in Emails}

\* Store calls of one request that succeed before the store becomes
\* unreachable; NoFault is a request during which it never does.
NoFault == MaxStoreOps
Faults == 0..MaxStoreOps

VARIABLES
    db,          \* the process-wide connection handle is set
    users,       \* users collection
    lessons,     \* lessons collection
    favorites,   \* favorites collection: records per <<userEmail, lessonId>>
    nextUserId,  \* next ObjectId of the users collection
    nextLessonId,\* next ObjectId of the lessons collection
    reports,     \* reports collection
    nextReportId,\* next ObjectId of the reports collection
    inflight,    \* requests suspended at an await between a read and a write
    sessions,    \* checkout sessions the payment provider has created
    resp         \* the last request and its response

vars == <<db, users, lessons, favorites, nextUserId, nextLessonId, reports,
          nextReportId, inflight, sessions, resp>>

\* ----------------------------------------------------------------- store
\* The k-th store call of a request succeeds (the handle is set and the
\* store answers); otherwise getXCollection() or the driver throws.
StoreOk(k, okOps) == okOps = MaxStoreOps \/ k <= okOps

\* connectDB(): sets the handle when the store is reachable, keeps it.
ConnectDB(okOps) == db \/ okOps > 0

UsersByEmail(email) == {u \in users : u.email = email}

\* findOne({email}): the first matching document in natural order.
FindUser(email) ==
    CHOOSE u \in UsersByEmail(email) : \A v \in UsersByEmail(email) : u._id <= v._id

HasUser(email) == UsersByEmail(email) # {}

LessonsById(id) == {l \in lessons : l._id = id}
HasLesson(id) == LessonsById(id) # {}
FindLesson(id) == CHOOSE l \in LessonsById(id) : TRUE

\* admin.auth().verifyIdToken(token): the identity provider knows Emails.
TokenValid(token) == token \in Emails

NoFavorites == [p \in Emails \X LessonIds |-> 0]

\* ------------------------------------------------------------ middleware
AnonUser == [email |-> Undefined, role |-> "user", isPremium |-> FALSE]

\* A middleware that does not ask the identity provider: the token is taken
\* for the caller's email.
VerifyToken_NoVerification(hdr, okOps) ==
    IF hdr.kind # "bearer" THEN
        [ok |-> FALSE, status |-> 401, error |-> "Unauthorized - No token provided",
         user |-> AnonUser]
    ELSE IF ~StoreOk(1, okOps) THEN
        [ok |-> FALSE, status |-> 401, error |-> "Unauthorized - Invalid token",
         user |-> AnonUser]
    ELSE
        [ok |-> TRUE, status |-> 200, error |-> "",
         user |-> [email |-> hdr.token,
                   role |-> IF HasUser(hdr.token) THEN FindUser(hdr.token).role ELSE "user",
                   isPremium |-> IF HasUser(hdr.token)
                                 THEN FindUser(hdr.token).isPremium ELSE FALSE]]

\* verifyToken: 401 without a Bearer header, on a rejected token and when
\* the user lookup throws; otherwise req.user from the token and the stored
\* record (role "user", isPremium false when there is none).  Store call 1.
VerifyToken(hdr, okOps) ==
    IF hdr.kind # "bearer" THEN
        [ok |-> FALSE, status |-> 401, error |-> "Unauthorized - No token provided",
         user |-> AnonUser]
    ELSE IF ~TokenValid(hdr.token) \/ ~StoreOk(1, okOps) THEN
        [ok |-> FALSE, status |-> 401, error |-> "Unauthorized - Invalid token",
         user |-> AnonUser]
    ELSE
        [ok |-> TRUE, status |-> 200, error |-> "",
         user |-> [email |-> hdr.token,
                   role |-> IF HasUser(hdr.token) THEN FindUser(hdr.token).role ELSE "user",
                   isPremium |-> IF HasUser(hdr.token)
                                 THEN FindUser(hdr.token).isPremium ELSE FALSE]]

\* A check that lets every signed-in caller through.
VerifyAdmin_AnyUser(user) == user.email # Undefined

\* verifyAdmin
VerifyAdmin(user) == user.role = "admin"

\* ------------------------------------------------------------------ init
\* An empty database but for the administrator's record, which is put there
\* by hand: no route creates the first admin.
InitAdmin ==
    [_id |-> 1, email |-> AdminEmail, name |-> "Anonymous", photo |-> "",
     role |-> "admin", isPremium |-> FALSE, favorites |-> {}]

NoResp == [op |-> "none", status |-> 0]

Init ==
    /\ db \in BOOLEAN
    /\ users = {InitAdmin}
    /\ lessons = {}
    /\ favorites = NoFavorites
    /\ nextUserId = 2
    /\ nextLessonId = 1
    /\ reports = {}
    /\ nextReportId = 1
    /\ inflight = {}
    /\ sessions = {}
    /\ resp = NoResp

\* ---------------------------------------------- POST /api/users/:email
NewUser(id, email) ==
    [_id |-> id, email |-> email, name |-> "Anonymous", photo |-> "",
     role |-> "user", isPremium |-> FALSE, favorites |-> {}]

SyncUserResult(hdr, email, okOps) ==
    LET auth == VerifyToken(hdr, okOps) IN
    IF ~auth.ok THEN [status |-> auth.status, insert |-> FALSE]
    ELSE IF email # auth.user.email THEN [status |-> 403, insert |-> FALSE]
    ELSE IF ~StoreOk(2, okOps) THEN [status |-> 500, insert |-> FALSE]
    ELSE IF HasUser(email) THEN [status |-> 200, insert |-> FALSE]
    ELSE IF ~StoreOk(3, okOps) THEN [status |-> 500, insert |-> FALSE]
    ELSE [status |-> 201, insert |-> TRUE]

SyncUser(hdr, email, okOps) ==
    LET r == SyncUserResult(hdr, email, okOps) IN
    /\ r.insert => nextUserId <= MaxUsers
    /\ db' = ConnectDB(okOps)
    /\ users' = IF r.insert THEN users \cup {NewUser(nextUserId, email)} ELSE users
    /\ nextUserId' = IF r.insert THEN nextUserId + 1 ELSE nextUserId
    /\ resp' = [op |-> "syncUser", hdr |-> hdr, email |-> email, okOps |-> okOps,
                status |-> r.status]
    /\ UNCHANGED <<inflight, sessions, reports, nextReportId, lessons,
                   favorites, nextLessonId>>

\* ------------------------------------- PATCH /api/admin/users/:id/role
\* updateOne(filter, {$set: ...}) on the users collection.
SetUserField(u, field, value) == (users \ {u}) \cup {[u EXCEPT ![field] = value]}

UsersById(id) == {u \in users : u._id = id}

SetRoleResult(hdr, idStr, role, okOps) ==
    LET auth == VerifyToken(hdr, okOps) IN
    IF ~auth.ok THEN [status |-> auth.status, write |-> FALSE]
    ELSE IF ~VerifyAdmin(auth.user) THEN [status |-> 403, write |-> FALSE]
    ELSE IF ~IsValid(idStr) THEN [status |-> 400, write |-> FALSE]
    ELSE IF role # "admin" /\ role # "user" THEN [status |-> 400, write |-> FALSE]
    ELSE IF ~StoreOk(2, okOps) THEN [status |-> 500, write |-> FALSE]
    ELSE IF UsersById(ObjectIdOf(idStr)) = {} THEN [status |-> 404, write |-> FALSE]
    ELSE [status |-> 200, write |-> TRUE]

SetRole(hdr, idStr, role, okOps) ==
    LET r == SetRoleResult(hdr, idStr, role, okOps) IN
    /\ db' = ConnectDB(okOps)
    /\ users' = IF r.write
                THEN LET u == CHOOSE x \in UsersById(ObjectIdOf(idStr)) : TRUE
                     IN SetUserField(u, "role", role)
                ELSE users
    /\ resp' = [op |-> "setRole", hdr |-> hdr, id |-> idStr, role |-> role,
                okOps |-> okOps, status |-> r.status]
    /\ UNCHANGED <<inflight, sessions, reports, nextReportId, lessons,
                   favorites, nextUserId, nextLessonId>>

\* ------------------------------------------ DELETE /api/admin/users/:id
DeleteUserResult(hdr, idStr, okOps) ==
    LET auth == VerifyToken(hdr, okOps) IN
    IF ~auth.ok THEN [status |-> auth.status, write |-> FALSE]
    ELSE IF ~VerifyAdmin(auth.user) THEN [status |-> 403, write |-> FALSE]
    ELSE IF ~IsValid(idStr) THEN [status |-> 400, write |-> FALSE]
    ELSE IF ~StoreOk(2, okOps) THEN [status |-> 500, write |-> FALSE]
    ELSE IF UsersById(ObjectIdOf(idStr)) = {} THEN [status |-> 404, write |-> FALSE]
    ELSE [status |-> 200, write |-> TRUE]

DeleteUser(hdr, idStr, okOps) ==
    LET r == DeleteUserResult(hdr, idStr, okOps) IN
    /\ db' = ConnectDB(okOps)
    /\ users' = IF r.write THEN users \ UsersById(ObjectIdOf(idStr)) ELSE users
    /\ resp' = [op |-> "deleteUser", hdr |-> hdr, id |-> idStr, okOps |-> okOps,
                status |-> r.status]
    /\ UNCHANGED <<inflight, sessions, reports, nextReportId, lessons,
                   favorites, nextUserId, nextLessonId>>

\* ------------------------------------------- POST /api/stripe/webhook
CheckoutCompleted == "checkout.session.completed"
EventTypes == {CheckoutCompleted, "payment_intent.succeeded"}

\* event.data.object of a payment event: metadata is an object (with or
\* without userEmail) or null; client_reference_id is an email or null.
Sessions ==
    [metadata : [present : {TRUE}, userEmail : Emails \cup {Undefined}]
                  \cup {[present |-> FALSE, userEmail |-> Undefined]},
     client_reference_id : Emails \cup {Undefined}]

Events == [type : EventTypes, session : Sessions]

\* What the server answers when the handler's promise rejects outside every
\* try block: nothing at all (Express 4 leaves the request open, the process
\* may exit on the unhandled rejection), or the default 500 (Express 5).
Unanswered == 0
RejectionOutcomes == {Unanswered, 500}

\* session.metadata.userEmail || session.client_reference_id
SessionEmail(session) ==
    IF session.metadata.userEmail # Undefined
    THEN session.metadata.userEmail
    ELSE session.client_reference_id

\* Reading .userEmail of a null metadata throws a TypeError.
SessionThrows(session) == ~session.metadata.present

\* A handler that acts on the event without verifying its signature.
WebhookResult_NoSignatureCheck(sigValid, event, okOps, rejected) ==
    IF event.type = CheckoutCompleted /\ SessionThrows(event.session) THEN
        [status |-> rejected, received |-> FALSE, upgrade |-> Undefined]
    ELSE IF /\ event.type = CheckoutCompleted
            /\ SessionEmail(event.session) # Undefined
            /\ StoreOk(1, okOps) THEN
        [status |-> 200, received |-> TRUE, upgrade |-> SessionEmail(event.session)]
    ELSE [status |-> 200, received |-> TRUE, upgrade |-> Undefined]

\* stripe.webhooks.constructEvent, then the checkout.session.completed
\* branch; `rejected` is the outcome of an uncaught exception.
WebhookResult(sigValid, event, okOps, rejected) ==
    IF ~sigValid THEN [status |-> 400, received |-> FALSE, upgrade |-> Undefined]
    ELSE IF event.type = CheckoutCompleted /\ SessionThrows(event.session) THEN
        [status |-> rejected, received |-> FALSE, upgrade |-> Undefined]
    ELSE IF /\ event.type = CheckoutCompleted
            /\ SessionEmail(event.session) # Undefined
            /\ StoreOk(1, okOps) THEN
        [status |-> 200, received |-> TRUE, upgrade |-> SessionEmail(event.session)]
    ELSE [status |-> 200, received |-> TRUE, upgrade |-> Undefined]

\* updateOne with {upsert: true}: a record is created when none matches.
StripeWebhook_Upsert(sigValid, event, okOps, rejected) ==
    LET r == WebhookResult(sigValid, event, okOps, rejected) IN
    /\ r.upgrade # Undefined /\ ~HasUser(r.upgrade) => nextUserId <= MaxUsers
    /\ db' = ConnectDB(okOps)
    /\ users' = IF r.upgrade = Undefined THEN users
                ELSE IF HasUser(r.upgrade)
                THEN SetUserField(FindUser(r.upgrade), "isPremium", TRUE)
                ELSE users \cup {[NewUser(nextUserId, r.upgrade) EXCEPT !.isPremium = TRUE]}
    /\ nextUserId' = IF r.upgrade # Undefined /\ ~HasUser(r.upgrade)
                     THEN nextUserId + 1 ELSE nextUserId
    /\ resp' = [op |-> "webhook", sigValid |-> sigValid, event |-> event,
                okOps |-> okOps, status |-> r.status, received |-> r.received]
    /\ UNCHANGED <<inflight, sessions, reports, nextReportId, lessons,
                   favorites, nextLessonId>>

StripeWebhook(sigValid, event, okOps, rejected) ==
    LET r == WebhookResult(sigValid, event, okOps, rejected) IN
    /\ db' = ConnectDB(okOps)
    /\ users' = IF r.upgrade # Undefined /\ HasUser(r.upgrade)
                THEN SetUserField(FindUser(r.upgrade), "isPremium", TRUE)
                ELSE users
    /\ resp' = [op |-> "webhook", sigValid |-> sigValid, event |-> event,
                okOps |-> okOps, status |-> r.status, received |-> r.received]
    /\ UNCHANGED <<inflight, sessions, reports, nextReportId, lessons,
                   favorites, nextUserId, nextLessonId>>

\* ------------------------------------------------- POST /api/lessons
\* JavaScript truthiness of a string field of a request body.
Truthy(v) == v # Undefined /\ v # ""

\* v || dflt
OrElse(v, dflt) == IF Truthy(v) THEN v ELSE dflt

\* A lesson document that ignores the submitted visibility.
NewLesson_AlwaysPublic(id, body, email) ==
    [_id |-> id,
     title |-> body.title,
     description |-> body.description,
     category |-> body.category,
     emotionalTone |-> body.emotionalTone,
     image |-> OrElse(body.image, ""),
     visibility |-> "public",
     accessLevel |-> OrElse(body.accessLevel, "free"),
     creatorEmail |-> email,
     likesCount |-> 0,
     likes |-> {},
     isFeatured |-> FALSE,
     isReviewed |-> FALSE,
     createdAt |-> id]

NewLesson(id, body, email) ==
    [_id |-> id,
     title |-> body.title,
     description |-> body.description,
     category |-> body.category,
     emotionalTone |-> body.emotionalTone,
     image |-> OrElse(body.image, ""),
     visibility |-> OrElse(body.visibility, "public"),
     accessLevel |-> OrElse(body.accessLevel, "free"),
     creatorEmail |-> email,
     likesCount |-> 0,
     likes |-> {},
     isFeatured |-> FALSE,
     isReviewed |-> FALSE,
     createdAt |-> id]

CreateLessonResult(hdr, body, okOps) ==
    LET auth == VerifyToken(hdr, okOps) IN
    IF ~auth.ok THEN [status |-> auth.status, insert |-> FALSE]
    ELSE IF \/ ~Truthy(body.title) \/ ~Truthy(body.description)
            \/ ~Truthy(body.category) \/ ~Truthy(body.emotionalTone)
    THEN [status |-> 400, insert |-> FALSE]
    ELSE IF body.accessLevel = "premium" /\ ~auth.user.isPremium
    THEN [status |-> 403, insert |-> FALSE]
    ELSE IF ~StoreOk(2, okOps) THEN [status |-> 500, insert |-> FALSE]
    ELSE [status |-> 201, insert |-> TRUE]

CreateLesson(hdr, body, okOps) ==
    LET r == CreateLessonResult(hdr, body, okOps) IN
    /\ r.insert => nextLessonId <= MaxLessons
    /\ db' = ConnectDB(okOps)
    /\ lessons' = IF r.insert
                  THEN lessons \cup {NewLesson(nextLessonId, body, hdr.token)}
                  ELSE lessons
    /\ nextLessonId' = IF r.insert THEN nextLessonId + 1 ELSE nextLessonId
    /\ resp' = [op |-> "createLesson", hdr |-> hdr, body |-> body, okOps |-> okOps,
                status |-> r.status,
                lessonId |-> IF r.insert THEN nextLessonId ELSE 0]
    /\ UNCHANGED <<inflight, sessions, reports, nextReportId, users, favorites,
                   nextUserId>>

\* ------------------------------------------- PATCH /api/lessons/:id
\* A replacement of the document's editable fields: a field the request
\* does not carry is nulled.
UpdatedLesson_NullsAbsent(l, body, isAdmin) ==
    [l EXCEPT
       !.title = body.title,
       !.description = body.description,
       !.category = body.category,
       !.emotionalTone = body.emotionalTone,
       !.image = body.image,
       !.visibility = body.visibility,
       !.accessLevel = body.accessLevel]

\* An update that takes the moderation flags from any caller who may update.
UpdatedLesson_FlagsForAll(l, body, isAdmin) ==
    [l EXCEPT
       !.title = IF Truthy(body.title) THEN body.title ELSE @,
       !.description = IF Truthy(body.description) THEN body.description ELSE @,
       !.category = IF Truthy(body.category) THEN body.category ELSE @,
       !.emotionalTone = IF Truthy(body.emotionalTone) THEN body.emotionalTone ELSE @,
       !.image = IF body.image # Undefined THEN body.image ELSE @,
       !.visibility = IF Truthy(body.visibility) THEN body.visibility ELSE @,
       !.accessLevel = IF Truthy(body.accessLevel) THEN body.accessLevel ELSE @,
       !.isFeatured = IF body.isFeatured # Undefined
                      THEN body.isFeatured = "true" ELSE @,
       !.isReviewed = IF body.isReviewed # Undefined
                      THEN body.isReviewed = "true" ELSE @]

\* updateFields applied with $set: a field is set when the request carries
\* it (truthy; image when not undefined), the moderation flags for an admin.
UpdatedLesson(l, body, isAdmin) ==
    [l EXCEPT
       !.title = IF Truthy(body.title) THEN body.title ELSE @,
       !.description = IF Truthy(body.description) THEN body.description ELSE @,
       !.category = IF Truthy(body.category) THEN body.category ELSE @,
       !.emotionalTone = IF Truthy(body.emotionalTone) THEN body.emotionalTone ELSE @,
       !.image = IF body.image # Undefined THEN body.image ELSE @,
       !.visibility = IF Truthy(body.visibility) THEN body.visibility ELSE @,
       !.accessLevel = IF Truthy(body.accessLevel) THEN body.accessLevel ELSE @,
       !.isFeatured = IF isAdmin /\ body.isFeatured # Undefined
                      THEN body.isFeatured = "true" ELSE @,
       !.isReviewed = IF isAdmin /\ body.isReviewed # Undefined
                      THEN body.isReviewed = "true" ELSE @]

\* An ownership check that forgets the admin.
CanMutate_CreatorOnly(lesson, user) == lesson.creatorEmail = user.email

\* canMutate: the creator or an admin.
CanMutate(lesson, user) == lesson.creatorEmail = user.email \/ user.role = "admin"

\* An update without the premium check on accessLevel.
UpdateLessonResult_NoPremiumCheck(hdr, idStr, body, okOps) ==
    LET auth == VerifyToken(hdr, okOps) IN
    IF ~auth.ok THEN [status |-> auth.status, write |-> FALSE]
    ELSE IF ~IsValid(idStr) THEN [status |-> 400, write |-> FALSE]
    ELSE IF ~StoreOk(2, okOps) THEN [status |-> 500, write |-> FALSE]
    ELSE IF ~HasLesson(ObjectIdOf(idStr)) THEN [status |-> 404, write |-> FALSE]
    ELSE IF ~CanMutate(FindLesson(ObjectIdOf(idStr)), auth.user)
    THEN [status |-> 403, write |-> FALSE]
    ELSE IF ~StoreOk(3, okOps) THEN [status |-> 500, write |-> FALSE]
    ELSE [status |-> 200, write |-> TRUE]

UpdateLessonResult(hdr, idStr, body, okOps) ==
    LET auth == VerifyToken(hdr, okOps) IN
    IF ~auth.ok THEN [status |-> auth.status, write |-> FALSE]
    ELSE IF ~IsValid(idStr) THEN [status |-> 400, write |-> FALSE]
    ELSE IF ~StoreOk(2, okOps) THEN [status |-> 500, write |-> FALSE]
    ELSE IF ~HasLesson(ObjectIdOf(idStr)) THEN [status |-> 404, write |-> FALSE]
    ELSE IF ~CanMutate(FindLesson(ObjectIdOf(idStr)), auth.user)
    THEN [status |-> 403, write |-> FALSE]
    ELSE IF body.accessLevel = "premium" /\ ~auth.user.isPremium
    THEN [status |-> 403, write |-> FALSE]
    ELSE IF ~StoreOk(3, okOps) THEN [status |-> 500, write |-> FALSE]
    ELSE [status |-> 200, write |-> TRUE]

UpdateLesson(hdr, idStr, body, okOps) ==
    LET r == UpdateLessonResult(hdr, idStr, body, okOps) IN
    /\ db' = ConnectDB(okOps)
    /\ lessons' = IF r.write
                  THEN LET l == FindLesson(ObjectIdOf(idStr)) IN
                       (lessons \ {l}) \cup
                         {UpdatedLesson(l, body, VerifyToken(hdr, okOps).user.role = "admin")}
                  ELSE lessons
    /\ resp' = [op |-> "updateLesson", hdr |-> hdr, id |-> idStr, body |-> body,
                okOps |-> okOps, status |-> r.status]
    /\ UNCHANGED <<inflight, sessions, reports, nextReportId, users, favorites,
                   nextUserId, nextLessonId>>

\* ------------------------------------------ DELETE /api/lessons/:id
DeleteLessonResult(hdr, idStr, okOps) ==
    LET auth == VerifyToken(hdr, okOps) IN
    IF ~auth.ok THEN [status |-> auth.status, write |-> FALSE]
    ELSE IF ~IsValid(idStr) THEN [status |-> 400, write |-> FALSE]
    ELSE IF ~StoreOk(2, okOps) THEN [status |-> 500, write |-> FALSE]
    ELSE IF ~HasLesson(ObjectIdOf(idStr)) THEN [status |-> 404, write |-> FALSE]
    ELSE IF ~CanMutate(FindLesson(ObjectIdOf(idStr)), auth.user)
    THEN [status |-> 403, write |-> FALSE]
    ELSE IF ~StoreOk(3, okOps) THEN [status |-> 500, write |-> FALSE]
    ELSE [status |-> 200, write |-> TRUE]

DeleteLesson(hdr, idStr, okOps) ==
    LET r == DeleteLessonResult(hdr, idStr, okOps) IN
    /\ db' = ConnectDB(okOps)
    /\ lessons' = IF r.write THEN lessons \ LessonsById(ObjectIdOf(idStr)) ELSE lessons
    /\ resp' = [op |-> "deleteLesson", hdr |-> hdr, id |-> idStr, okOps |-> okOps,
                status |-> r.status]
    /\ UNCHANGED <<inflight, sessions, reports, nextReportId, users, favorites,
                   nextUserId, nextLessonId>>

\* --------------------------------------------- GET /api/lessons/:id
Pass == ""

\* The earlier revision's order of checks undone: a visibility check that
\* lets the premium check answer first for a premium lesson.
VisibilityCheck_AfterPremium(lesson, hdr, k, okOps) ==
    IF lesson.visibility # "private" \/ lesson.accessLevel = "premium"
    THEN [error |-> Pass, ops |-> 0]
    ELSE IF hdr.kind # "bearer"
    THEN [error |-> "Private lesson - Authentication required", ops |-> 0]
    ELSE IF ~TokenValid(hdr.token) \/ ~StoreOk(k, okOps)
    THEN [error |-> "Private lesson - Invalid token", ops |-> 0]
    ELSE LET isCreator == lesson.creatorEmail = hdr.token
             isAdmin == HasUser(hdr.token) /\ FindUser(hdr.token).role = "admin"
         IN IF ~isCreator /\ ~isAdmin
            THEN [error |-> "Private lesson - Restricted access", ops |-> 1]
            ELSE [error |-> Pass, ops |-> 1]

\* A visibility check that forgets the admin.
VisibilityCheck_CreatorOnly(lesson, hdr, k, okOps) ==
    IF lesson.visibility # "private" THEN [error |-> Pass, ops |-> 0]
    ELSE IF hdr.kind # "bearer"
    THEN [error |-> "Private lesson - Authentication required", ops |-> 0]
    ELSE IF ~TokenValid(hdr.token) \/ ~StoreOk(k, okOps)
    THEN [error |-> "Private lesson - Invalid token", ops |-> 0]
    ELSE IF lesson.creatorEmail # hdr.token
    THEN [error |-> "Private lesson - Restricted access", ops |-> 1]
    ELSE [error |-> Pass, ops |-> 1]

\* The visibility check on a private lesson; k is the number of the store
\* call it would make.  Every exception inside it is answered as a denial.
VisibilityCheck(lesson, hdr, k, okOps) ==
    IF lesson.visibility # "private" THEN [error |-> Pass, ops |-> 0]
    ELSE IF hdr.kind # "bearer"
    THEN [error |-> "Private lesson - Authentication required", ops |-> 0]
    ELSE IF ~TokenValid(hdr.token) \/ ~StoreOk(k, okOps)
    THEN [error |-> "Private lesson - Invalid token", ops |-> 0]
    ELSE LET isCreator == lesson.creatorEmail = hdr.token
             isAdmin == HasUser(hdr.token) /\ FindUser(hdr.token).role = "admin"
         IN IF ~isCreator /\ ~isAdmin
            THEN [error |-> "Private lesson - Restricted access", ops |-> 1]
            ELSE [error |-> Pass, ops |-> 1]

\* A premium check that exempts the lesson's creator and admins.
PremiumCheck_ExemptOwner(lesson, hdr, k, okOps) ==
    IF lesson.accessLevel # "premium" THEN [error |-> Pass, ops |-> 0]
    ELSE IF hdr.kind # "bearer"
    THEN [error |-> "Premium lesson - Authentication required", ops |-> 0]
    ELSE IF ~TokenValid(hdr.token) \/ ~StoreOk(k, okOps)
    THEN [error |-> "Premium lesson - Invalid authentication", ops |-> 0]
    ELSE IF /\ lesson.creatorEmail # hdr.token
            /\ ~(HasUser(hdr.token) /\ FindUser(hdr.token).role = "admin")
            /\ (~HasUser(hdr.token) \/ ~FindUser(hdr.token).isPremium)
    THEN [error |-> "Premium lesson - Premium subscription required", ops |-> 1]
    ELSE [error |-> Pass, ops |-> 1]

\* The premium check on a premium lesson, made after the visibility check.
PremiumCheck(lesson, hdr, k, okOps) ==
    IF lesson.accessLevel # "premium" THEN [error |-> Pass, ops |-> 0]
    ELSE IF hdr.kind # "bearer"
    THEN [error |-> "Premium lesson - Authentication required", ops |-> 0]
    ELSE IF ~TokenValid(hdr.token) \/ ~StoreOk(k, okOps)
    THEN [error |-> "Premium lesson - Invalid authentication", ops |-> 0]
    ELSE IF ~HasUser(hdr.token) \/ ~FindUser(hdr.token).isPremium
    THEN [error |-> "Premium lesson - Premium subscription required", ops |-> 1]
    ELSE [error |-> Pass, ops |-> 1]

GetByIdResult(hdr, idStr, okOps) ==
    LET fail(st, err) == [status |-> st, error |-> err, isPremiumContent |-> FALSE,
                          lesson |-> <<>>]
    IN
    IF ~ConnectDB(okOps) THEN fail(500, "Internal server error")
    ELSE IF ~IsValid(idStr) THEN fail(400, "Invalid lesson ID")
    ELSE IF ~StoreOk(1, okOps) THEN fail(500, "Internal server error")
    ELSE IF ~HasLesson(ObjectIdOf(idStr)) THEN fail(404, "Lesson not found")
    ELSE
      LET lesson == FindLesson(ObjectIdOf(idStr))
          vis == VisibilityCheck(lesson, hdr, 2, okOps)
          prem == PremiumCheck(lesson, hdr, 2 + vis.ops, okOps)
          used == 1 + vis.ops + prem.ops
      IN
      IF vis.error # Pass THEN fail(403, vis.error)
      ELSE IF prem.error # Pass
      THEN [status |-> 403, error |-> prem.error, isPremiumContent |-> TRUE,
            lesson |-> <<>>]
      ELSE IF ~StoreOk(used + 2, okOps) THEN fail(500, "Internal server error")
      ELSE [status |-> 200, error |-> "", isPremiumContent |-> FALSE,
            lesson |-> <<lesson>>]

GetById(hdr, idStr, okOps) ==
    LET r == GetByIdResult(hdr, idStr, okOps) IN
    /\ db' = ConnectDB(okOps)
    /\ resp' = [op |-> "getById", hdr |-> hdr, id |-> idStr, okOps |-> okOps,
                status |-> r.status, error |-> r.error,
                isPremiumContent |-> r.isPremiumContent, lesson |-> r.lesson]
    /\ UNCHANGED <<inflight, sessions, reports, nextReportId, users, lessons,
                   favorites, nextUserId, nextLessonId>>

\* ---------------------------------------- POST /api/lessons/:id/like
ToggleLikeResult(hdr, idStr, okOps) ==
    LET auth == VerifyToken(hdr, okOps) IN
    IF ~auth.ok THEN [status |-> auth.status, write |-> FALSE, liked |-> FALSE]
    ELSE IF ~IsValid(idStr) THEN [status |-> 400, write |-> FALSE, liked |-> FALSE]
    ELSE IF ~StoreOk(2, okOps) THEN [status |-> 500, write |-> FALSE, liked |-> FALSE]
    ELSE IF ~HasLesson(ObjectIdOf(idStr))
    THEN [status |-> 404, write |-> FALSE, liked |-> FALSE]
    ELSE IF ~StoreOk(3, okOps) THEN [status |-> 500, write |-> FALSE, liked |-> FALSE]
    ELSE [status |-> 200, write |-> TRUE,
          liked |-> hdr.token \notin FindLesson(ObjectIdOf(idStr)).likes]

\* An unlike that pulls the email and forgets the counter.
LikeUpdate_NoDecrement(lesson, email, hasLiked) ==
    IF hasLiked
    THEN [lesson EXCEPT !.likes = @ \ {email}]
    ELSE [lesson EXCEPT !.likes = @ \cup {email}, !.likesCount = @ + 1]

\* The update of the lesson document: $pull and $inc -1 when the caller has
\* liked it, $addToSet and $inc +1 otherwise.
LikeUpdate(lesson, email, hasLiked) ==
    IF hasLiked
    THEN [lesson EXCEPT !.likes = @ \ {email}, !.likesCount = @ - 1]
    ELSE [lesson EXCEPT !.likes = @ \cup {email}, !.likesCount = @ + 1]

ToggleLike(hdr, idStr, okOps) ==
    LET r == ToggleLikeResult(hdr, idStr, okOps) IN
    /\ db' = ConnectDB(okOps)
    /\ lessons' = IF r.write
                  THEN LET l == FindLesson(ObjectIdOf(idStr)) IN
                       (lessons \ {l}) \cup {LikeUpdate(l, hdr.token, hdr.token \in l.likes)}
                  ELSE lessons
    /\ resp' = [op |-> "toggleLike", hdr |-> hdr, id |-> idStr, okOps |-> okOps,
                status |-> r.status, liked |-> r.liked]
    /\ UNCHANGED <<inflight, sessions, reports, nextReportId, users, favorites,
                   nextUserId, nextLessonId>>

\* ------------------------------------ POST /api/lessons/:id/favorite
\* findOne({userEmail, lessonId}) on the favorites collection found a record.
ExistingFavorite(email, id) == favorites[<<email, id>>] > 0

\* The lessons an email has favorited according to the favorites collection.
FavRecordIds(email) == {id \in LessonIds : favorites[<<email, id>>] > 0}

\* The lessons an email has favorited according to users.favorites.
FavArrayIds(email) ==
    IF HasUser(email) THEN {ObjectIdOf(s) : s \in FindUser(email).favorites} ELSE {}

\* Store calls: 1 verifyToken, 2 the lesson, 3 the favorite, 4 the write of
\* the favorites collection, 5 the write of users.favorites.
ToggleFavoriteResult(hdr, idStr, okOps) ==
    LET auth == VerifyToken(hdr, okOps)
        none(st) == [status |-> st, favorited |-> FALSE, recWrite |-> FALSE,
                     arrWrite |-> FALSE]
    IN
    IF ~auth.ok THEN none(auth.status)
    ELSE IF ~IsValid(idStr) THEN none(400)
    ELSE IF ~StoreOk(2, okOps) THEN none(500)
    ELSE IF ~HasLesson(ObjectIdOf(idStr)) THEN none(404)
    ELSE IF ~StoreOk(4, okOps) THEN none(500)
    ELSE IF ~StoreOk(5, okOps)
    THEN [status |-> 500, favorited |-> FALSE, recWrite |-> TRUE, arrWrite |-> FALSE]
    ELSE [status |-> 200, favorited |-> ~ExistingFavorite(hdr.token, ObjectIdOf(idStr)),
          recWrite |-> TRUE, arrWrite |-> TRUE]

\* deleteOne({_id: existingFavorite._id}) or insertOne({userEmail, lessonId}).
FavoriteRecordWrite(email, id, existing) ==
    [favorites EXCEPT ![<<email, id>>] = IF existing THEN @ - 1 ELSE @ + 1]

\* updateOne({email}, {$pull | $addToSet: {favorites: req.params.id}}): the
\* array holds the id as the string of the URL; no record, no write.
FavoriteArrayWrite(email, idStr, existing) ==
    IF ~HasUser(email) THEN users
    ELSE LET u == FindUser(email) IN
         SetUserField(u, "favorites",
                      IF existing THEN u.favorites \ {idStr}
                      ELSE u.favorites \cup {idStr})

ToggleFavorite(hdr, idStr, okOps) ==
    LET r == ToggleFavoriteResult(hdr, idStr, okOps)
        id == ObjectIdOf(idStr)
    IN
    /\ db' = ConnectDB(okOps)
    /\ favorites' = IF r.recWrite
                    THEN FavoriteRecordWrite(hdr.token, id, ExistingFavorite(hdr.token, id))
                    ELSE favorites
    /\ users' = IF r.arrWrite
                THEN FavoriteArrayWrite(hdr.token, idStr, ExistingFavorite(hdr.token, id))
                ELSE users
    /\ resp' = [op |-> "toggleFavorite", hdr |-> hdr, id |-> idStr, okOps |-> okOps,
                status |-> r.status, favorited |-> r.favorited,
                recBefore |-> r.status = 200 /\ id \in FavRecordIds(hdr.token),
                arrBefore |-> r.status = 200 /\ id \in FavArrayIds(hdr.token)]
    /\ UNCHANGED <<inflight, sessions, reports, nextReportId, lessons,
                   nextUserId, nextLessonId>>

\* --------------------------------------------------- POST /api/reports
NewReport(id, lessonIdStr, reason, email) ==
    [_id |-> id, lessonId |-> ObjectIdOf(lessonIdStr), reason |-> reason,
     reporterEmail |-> email, createdAt |-> id]

\* No lookup of the lesson: any well-formed id can be reported.
FileReportResult(hdr, lessonIdStr, okOps) ==
    LET auth == VerifyToken(hdr, okOps) IN
    IF ~auth.ok THEN [status |-> auth.status, insert |-> FALSE]
    ELSE IF ~IsValid(lessonIdStr) THEN [status |-> 400, insert |-> FALSE]
    ELSE IF ~StoreOk(2, okOps) THEN [status |-> 500, insert |-> FALSE]
    ELSE [status |-> 201, insert |-> TRUE]

FileReport(hdr, lessonIdStr, reason, okOps) ==
    LET r == FileReportResult(hdr, lessonIdStr, okOps) IN
    /\ r.insert => nextReportId <= MaxReports
    /\ db' = ConnectDB(okOps)
    /\ reports' = IF r.insert
                  THEN reports \cup {NewReport(nextReportId, lessonIdStr, reason, hdr.token)}
                  ELSE reports
    /\ nextReportId' = IF r.insert THEN nextReportId + 1 ELSE nextReportId
    /\ resp' = [op |-> "fileReport", hdr |-> hdr, lessonId |-> lessonIdStr,
                okOps |-> okOps, status |-> r.status]
    /\ UNCHANGED <<inflight, sessions, users, lessons, favorites, nextUserId,
                   nextLessonId>>

\* ----------------------------------------------- GET /api/admin/reports
\* $lookup into lessons and $unwind with preserveNullAndEmptyArrays: the
\* report joined with its lesson, or without a lesson field when the lookup
\* finds none.
JoinedReport(r) ==
    [report |-> r,
     lesson |-> IF HasLesson(r.lessonId) THEN <<FindLesson(r.lessonId)>> ELSE <<>>]

\* $sort: {createdAt: -1} of a set of reports.
RECURSIVE SortReports(_)
SortReports(S) ==
    IF S = {} THEN <<>>
    ELSE LET newest == CHOOSE r \in S : \A q \in S : q.createdAt <= r.createdAt
         IN <<newest>> \o SortReports(S \ {newest})

\* The join applied to every report of the sorted result.
JoinAll(seq) == [i \in 1..Len(seq) |-> JoinedReport(seq[i])]

ListReportsResult(hdr, lessonIdQ, okOps) ==
    LET auth == VerifyToken(hdr, okOps) IN
    IF ~auth.ok THEN [status |-> auth.status, reports |-> <<>>]
    ELSE IF ~VerifyAdmin(auth.user) THEN [status |-> 403, reports |-> <<>>]
    ELSE IF lessonIdQ # NoId /\ ~IsValid(lessonIdQ) THEN [status |-> 400, reports |-> <<>>]
    ELSE IF ~StoreOk(2, okOps) THEN [status |-> 500, reports |-> <<>>]
    ELSE LET matched == IF lessonIdQ = NoId THEN reports
                        ELSE {r \in reports : r.lessonId = ObjectIdOf(lessonIdQ)}
         IN [status |-> 200, reports |-> JoinAll(SortReports(matched))]

ListReports(hdr, lessonIdQ, okOps) ==
    LET r == ListReportsResult(hdr, lessonIdQ, okOps) IN
    /\ db' = ConnectDB(okOps)
    /\ resp' = [op |-> "listReports", hdr |-> hdr, lessonId |-> lessonIdQ,
                okOps |-> okOps, status |-> r.status, reports |-> r.reports]
    /\ UNCHANGED <<inflight, sessions, users, lessons, favorites, nextUserId,
                   nextLessonId, reports,
                   nextReportId>>

\* ------------------------------------- DELETE /api/admin/reports/:id
ReportsById(id) == {r \in reports : r._id = id}

ResolveReportResult(hdr, idStr, okOps) ==
    LET auth == VerifyToken(hdr, okOps) IN
    IF ~auth.ok THEN [status |-> auth.status, write |-> FALSE]
    ELSE IF ~VerifyAdmin(auth.user) THEN [status |-> 403, write |-> FALSE]
    ELSE IF ~IsValid(idStr) THEN [status |-> 400, write |-> FALSE]
    ELSE IF ~StoreOk(2, okOps) THEN [status |-> 500, write |-> FALSE]
    ELSE IF ReportsById(ObjectIdOf(idStr)) = {} THEN [status |-> 404, write |-> FALSE]
    ELSE [status |-> 200, write |-> TRUE]

ResolveReport(hdr, idStr, okOps) ==
    LET r == ResolveReportResult(hdr, idStr, okOps) IN
    /\ db' = ConnectDB(okOps)
    /\ reports' = IF r.write THEN reports \ ReportsById(ObjectIdOf(idStr)) ELSE reports
    /\ resp' = [op |-> "resolveReport", hdr |-> hdr, id |-> idStr, okOps |-> okOps,
                status |-> r.status]
    /\ UNCHANGED <<inflight, sessions, users, lessons, favorites, nextUserId,
                   nextLessonId, nextReportId>>

\* -------------------------------------- GET /api/admin/reported-lessons
\* An aggregation that keeps the groups of deleted lessons, with the lesson
\* details left out.
ReportedLessonsOf_KeepDeleted(rs) ==
    {[_id |-> id,
      title |-> IF HasLesson(id) THEN FindLesson(id).title ELSE Undefined,
      creatorEmail |-> IF HasLesson(id) THEN FindLesson(id).creatorEmail ELSE Undefined,
      reportCount |-> Cardinality({r \in rs : r.lessonId = id})] :
        id \in {r.lessonId : r \in rs}}

\* $group by lessonId with a count, $lookup into lessons, $unwind (a group
\* whose lookup finds no lesson is dropped), $project.
ReportedLessonsOf(rs) ==
    {[_id |-> id,
      title |-> FindLesson(id).title,
      creatorEmail |-> FindLesson(id).creatorEmail,
      reportCount |-> Cardinality({r \in rs : r.lessonId = id})] :
        id \in {i \in {r.lessonId : r \in rs} : HasLesson(i)}}

ReportedLessonsResult(hdr, okOps) ==
    LET auth == VerifyToken(hdr, okOps) IN
    IF ~auth.ok THEN [status |-> auth.status, items |-> {}]
    ELSE IF ~VerifyAdmin(auth.user) THEN [status |-> 403, items |-> {}]
    ELSE IF ~StoreOk(2, okOps) THEN [status |-> 500, items |-> {}]
    ELSE [status |-> 200, items |-> ReportedLessonsOf(reports)]

ReportedLessons(hdr, okOps) ==
    LET r == ReportedLessonsResult(hdr, okOps) IN
    /\ db' = ConnectDB(okOps)
    /\ resp' = [op |-> "reportedLessons", hdr |-> hdr, okOps |-> okOps,
                status |-> r.status, items |-> r.items]
    /\ UNCHANGED <<inflight, sessions, users, lessons, favorites, nextUserId,
                   nextLessonId, reports,
                   nextReportId>>

\* --------------------------------------- DELETE /api/admin/lessons/:id
AdminDeleteLessonResult(hdr, idStr, okOps) ==
    LET auth == VerifyToken(hdr, okOps) IN
    IF ~auth.ok THEN [status |-> auth.status, write |-> FALSE]
    ELSE IF ~VerifyAdmin(auth.user) THEN [status |-> 403, write |-> FALSE]
    ELSE IF ~IsValid(idStr) THEN [status |-> 400, write |-> FALSE]
    ELSE IF ~StoreOk(2, okOps) THEN [status |-> 500, write |-> FALSE]
    ELSE IF ~HasLesson(ObjectIdOf(idStr)) THEN [status |-> 404, write |-> FALSE]
    ELSE [status |-> 200, write |-> TRUE]

AdminDeleteLesson(hdr, idStr, okOps) ==
    LET r == AdminDeleteLessonResult(hdr, idStr, okOps) IN
    /\ db' = ConnectDB(okOps)
    /\ lessons' = IF r.write THEN lessons \ LessonsById(ObjectIdOf(idStr)) ELSE lessons
    /\ resp' = [op |-> "adminDeleteLesson", hdr |-> hdr, id |-> idStr, okOps |-> okOps,
                status |-> r.status]
    /\ UNCHANGED <<inflight, sessions, users, favorites, nextUserId,
                   nextLessonId, reports, nextReportId>>

\* --------------------------------------------------- GET /api/lessons
\* parseInt(s) || dflt: the default for what is no number and for 0.
ParseIntOr(s, dflt) ==
    CASE s = "1" -> 1
      [] s = "2" -> 2
      [] s = "-1" -> 0 - 1
      [] OTHER -> dflt

\* {$regex: search, $options: "i"} on a title: the pattern occurs in the
\* title, letter case ignored.
RegexMatches(title, search) ==
    \/ search \in {"let", "LET", "go"} /\ title = "Letting go"
    \/ search \in {"on", "ON"} /\ title = "Holding on"

\* A filter without the fixed visibility.
ListFilter_AnyVisibility(l, query) ==
    /\ Truthy(query.category) => l.category = query.category
    /\ Truthy(query.emotionalTone) => l.emotionalTone = query.emotionalTone
    /\ Truthy(query.search) => RegexMatches(l.title, query.search)
    /\ query.featured = "true" => l.isFeatured = TRUE
    /\ Truthy(query.creatorEmail) => l.creatorEmail = query.creatorEmail

\* The find() filter: visibility public, and each filter the query gives.
ListFilter(l, query) ==
    /\ l.visibility = "public"
    /\ Truthy(query.category) => l.category = query.category
    /\ Truthy(query.emotionalTone) => l.emotionalTone = query.emotionalTone
    /\ Truthy(query.search) => RegexMatches(l.title, query.search)
    /\ query.featured = "true" => l.isFeatured = TRUE
    /\ Truthy(query.creatorEmail) => l.creatorEmail = query.creatorEmail

Matching(query) == {l \in lessons : ListFilter(l, query)}

\* The sort document as a key that is sorted descending.
SortKey(l, sort) ==
    IF sort = "oldest" THEN 0 - l.createdAt
    ELSE IF sort = "popular" THEN l.likesCount
    ELSE l.createdAt

\* The orders sort() may return a set of lessons in: documents with equal
\* keys come in an order the store chooses.
SortedOrders(S, sort) ==
    {s \in [1..Cardinality(S) -> S] :
        /\ \A i, j \in 1..Cardinality(S) : i # j => s[i] # s[j]
        /\ \A i, j \in 1..Cardinality(S) :
              i < j => SortKey(s[i], sort) >= SortKey(s[j], sort)}

\* skip(skip).limit(limit) of a sorted result, limit positive.
PageOf(order, skip, limit) ==
    LET last == IF skip + limit < Len(order) THEN skip + limit ELSE Len(order)
    IN SubSeq(order, skip + 1, last)

\* Store calls: 1 the page, 2 the authors, then one count per author of the
\* page, then the total.  A negative skip is an error of the store; a
\* negative limit is served as its absolute value.
ListLessonsResult(query, order, okOps) ==
    LET page == ParseIntOr(query.page, 1)
        limit == ParseIntOr(query.limit, 10)
        skip == (page - 1) * limit
        fail == [status |-> 500, lessons |-> <<>>, page |-> page, limit |-> limit,
                 total |-> 0]
    IN
    IF ~ConnectDB(okOps) \/ ~StoreOk(1, okOps) THEN fail
    ELSE IF skip < 0 THEN fail
    ELSE LET out == PageOf(order, skip, IF limit < 0 THEN 0 - limit ELSE limit)
             authors == {out[i].creatorEmail : i \in 1..Len(out)}
         IN IF ~StoreOk(3 + Cardinality(authors), okOps) THEN fail
            ELSE [status |-> 200, lessons |-> out, page |-> page, limit |-> limit,
                  total |-> Cardinality(Matching(query))]

ListLessons(query, order, okOps) ==
    LET r == ListLessonsResult(query, order, okOps) IN
    /\ order \in SortedOrders(Matching(query), query.sort)
    /\ db' = ConnectDB(okOps)
    /\ resp' = [op |-> "listLessons", query |-> query, okOps |-> okOps,
                status |-> r.status, lessons |-> r.lessons, page |-> r.page,
                limit |-> r.limit, total |-> r.total]
    /\ UNCHANGED <<inflight, sessions, users, lessons, favorites, nextUserId,
                   nextLessonId, reports,
                   nextReportId>>

\* ------------------------------------------------ GET /api/admin/users
ListUsersResult(hdr, okOps) ==
    LET auth == VerifyToken(hdr, okOps) IN
    IF ~auth.ok THEN [status |-> auth.status, users |-> {}]
    ELSE IF ~VerifyAdmin(auth.user) THEN [status |-> 403, users |-> {}]
    ELSE IF ~StoreOk(2, okOps) THEN [status |-> 500, users |-> {}]
    ELSE [status |-> 200, users |-> users]

ListUsers(hdr, okOps) ==
    LET r == ListUsersResult(hdr, okOps) IN
    /\ db' = ConnectDB(okOps)
    /\ resp' = [op |-> "listUsers", hdr |-> hdr, okOps |-> okOps, status |-> r.status,
                users |-> r.users]
    /\ UNCHANGED <<inflight, sessions, users, lessons, favorites, nextUserId,
                   nextLessonId, reports,
                   nextReportId>>

\* ---------------------------------------------- GET /api/admin/lessons
\* Store calls: 2 the reported lesson ids when flagged, then the lessons.
AdminListLessonsResult(hdr, category, visibility, flagged, okOps) ==
    LET auth == VerifyToken(hdr, okOps)
        finds == IF flagged = "true" THEN 3 ELSE 2
    IN
    IF ~auth.ok THEN [status |-> auth.status, lessons |-> {}]
    ELSE IF ~VerifyAdmin(auth.user) THEN [status |-> 403, lessons |-> {}]
    ELSE IF ~StoreOk(finds, okOps) THEN [status |-> 500, lessons |-> {}]
    ELSE [status |-> 200,
          lessons |-> {l \in lessons :
                         /\ Truthy(category) => l.category = category
                         /\ Truthy(visibility) => l.visibility = visibility
                         /\ flagged = "true" => l._id \in {r.lessonId : r \in reports}}]

AdminListLessons(hdr, category, visibility, flagged, okOps) ==
    LET r == AdminListLessonsResult(hdr, category, visibility, flagged, okOps) IN
    /\ db' = ConnectDB(okOps)
    /\ resp' = [op |-> "adminListLessons", hdr |-> hdr, okOps |-> okOps,
                status |-> r.status, lessons |-> r.lessons]
    /\ UNCHANGED <<inflight, sessions, users, lessons, favorites, nextUserId,
                   nextLessonId, reports,
                   nextReportId>>

\* ------------------------------------------------ GET /api/admin/stats
\* Store calls 2 to 6: four counts and the distinct reported lesson ids.
AdminStatsResult(hdr, okOps) ==
    LET auth == VerifyToken(hdr, okOps)
        none == [totalUsers |-> 0, totalLessons |-> 0, publicLessons |-> 0,
                 privateLessons |-> 0, totalReportedLessons |-> 0]
    IN
    IF ~auth.ok THEN [status |-> auth.status, stats |-> none]
    ELSE IF ~VerifyAdmin(auth.user) THEN [status |-> 403, stats |-> none]
    ELSE IF ~StoreOk(6, okOps) THEN [status |-> 500, stats |-> none]
    ELSE [status |-> 200,
          stats |-> [totalUsers |-> Cardinality(users),
                     totalLessons |-> Cardinality(lessons),
                     publicLessons |->
                         Cardinality({l \in lessons : l.visibility = "public"}),
                     privateLessons |->
                         Cardinality({l \in lessons : l.visibility = "private"}),
                     totalReportedLessons |->
                         Cardinality({r.lessonId : r \in reports})]]

AdminStats(hdr, okOps) ==
    LET r == AdminStatsResult(hdr, okOps) IN
    /\ db' = ConnectDB(okOps)
    /\ resp' = [op |-> "adminStats", hdr |-> hdr, okOps |-> okOps, status |-> r.status,
                stats |-> r.stats]
    /\ UNCHANGED <<inflight, sessions, users, lessons, favorites, nextUserId,
                   nextLessonId, reports,
                   nextReportId>>

\* ------------------------------------------------ GET /api/my-favorites
\* A pipeline whose $unwind keeps the favorites that point to no lesson,
\* returned with the id alone.
FavoriteLessonsOf_KeepDangling(email, category, emotionalTone) ==
    {l \in lessons : ExistingFavorite(email, l._id)}
      \cup {[_id |-> id] : id \in {i \in FavRecordIds(email) : ~HasLesson(i)}}

\* The pipeline: $match on userEmail, $lookup of the lesson, $unwind (a
\* favorite whose lookup finds no lesson is dropped), $replaceRoot by the
\* lesson, then $match on category and on emotionalTone when the query
\* carries them.
FavoriteLessonsOf(email, category, emotionalTone) ==
    {l \in lessons :
        /\ ExistingFavorite(email, l._id)
        /\ Truthy(category) => l.category = category
        /\ Truthy(emotionalTone) => l.emotionalTone = emotionalTone}

\* favoriteLessons.length: one entry for every favorite record of a lesson.
RECURSIVE FavoriteCount(_, _)
FavoriteCount(email, S) ==
    IF S = {} THEN 0
    ELSE LET l == CHOOSE x \in S : TRUE
         IN favorites[<<email, l._id>>] + FavoriteCount(email, S \ {l})

ListFavoritesResult(hdr, category, emotionalTone, okOps) ==
    LET auth == VerifyToken(hdr, okOps) IN
    IF ~auth.ok THEN [status |-> auth.status, lessons |-> {}, total |-> 0]
    ELSE IF ~StoreOk(2, okOps) THEN [status |-> 500, lessons |-> {}, total |-> 0]
    ELSE LET found == FavoriteLessonsOf(auth.user.email, category, emotionalTone)
         IN [status |-> 200, lessons |-> found,
             total |-> FavoriteCount(auth.user.email, found)]

ListFavorites(hdr, category, emotionalTone, okOps) ==
    LET r == ListFavoritesResult(hdr, category, emotionalTone, okOps) IN
    /\ db' = ConnectDB(okOps)
    /\ resp' = [op |-> "listFavorites", hdr |-> hdr, category |-> category,
                emotionalTone |-> emotionalTone, okOps |-> okOps,
                status |-> r.status, lessons |-> r.lessons, total |-> r.total]
    /\ UNCHANGED <<inflight, sessions, users, lessons, favorites, nextUserId,
                   nextLessonId, reports, nextReportId>>

\* ------------------------------------------- requests that interleave
\* The server handles a request until it awaits the store and then takes up
\* another: a handler that reads at one await and writes at a later one is
\* suspended in between, holding what it has read in its local variables.
\* Requests names the connections that are open at the same time.
Requests == {"r1", "r2"}

Suspended(req) == {r \in inflight : r.req = req}

\* ---- POST /api/lessons/:id/like, from the request to the await of the
\* update: verifyToken, the id check and findOne of the lesson.  A request
\* answered before the update (401, 400, 404) is not suspended.
LikeRead(req, hdr, idStr) ==
    LET r == ToggleLikeResult(hdr, idStr, NoFault) IN
    /\ Suspended(req) = {}
    /\ db' = ConnectDB(NoFault)
    /\ inflight' = IF r.write
                   THEN inflight \cup
                          {[req |-> req, op |-> "toggleLike", hdr |-> hdr, id |-> idStr,
                            hasLiked |-> hdr.token \in FindLesson(ObjectIdOf(idStr)).likes]}
                   ELSE inflight
    /\ resp' = IF r.write THEN resp
               ELSE [op |-> "toggleLike", hdr |-> hdr, id |-> idStr, okOps |-> NoFault,
                     status |-> r.status, liked |-> FALSE]
    /\ UNCHANGED <<sessions, reports, nextReportId, users, lessons, favorites,
                   nextUserId, nextLessonId>>

\* ---- the rest of the handler: updateOne({_id: lessonId}, ...) chosen by
\* the hasLiked that was read (no document matches when the lesson has been
\* deleted meanwhile), then the response.
LikeWrite(req) ==
    \E r \in Suspended(req) :
       /\ r.op = "toggleLike"
       /\ db' = db
       /\ lessons' = IF HasLesson(ObjectIdOf(r.id))
                     THEN LET l == FindLesson(ObjectIdOf(r.id)) IN
                          (lessons \ {l}) \cup {LikeUpdate(l, r.hdr.token, r.hasLiked)}
                     ELSE lessons
       /\ inflight' = inflight \ {r}
       /\ resp' = [op |-> "toggleLike", hdr |-> r.hdr, id |-> r.id, okOps |-> NoFault,
                   status |-> 200, liked |-> ~r.hasLiked]
       /\ UNCHANGED <<sessions, reports, nextReportId, users, favorites, nextUserId,
                      nextLessonId>>

\* ---- POST /api/lessons/:id/favorite, from the request to the await of the
\* first write: verifyToken, the id check, findOne of the lesson and findOne
\* of the favorite.  `existing` is existingFavorite; `gone` says that the
\* record it points to has been deleted by another request since.
FavRead(req, hdr, idStr) ==
    LET r == ToggleFavoriteResult(hdr, idStr, NoFault) IN
    /\ Suspended(req) = {}
    /\ db' = ConnectDB(NoFault)
    /\ inflight' = IF r.recWrite
                   THEN inflight \cup
                          {[req |-> req, op |-> "toggleFavorite", hdr |-> hdr,
                            id |-> idStr, stage |-> "record", gone |-> FALSE,
                            existing |-> ExistingFavorite(hdr.token, ObjectIdOf(idStr))]}
                   ELSE inflight
    /\ resp' = IF r.recWrite THEN resp
               ELSE [op |-> "toggleFavorite", hdr |-> hdr, id |-> idStr,
                     okOps |-> NoFault, status |-> r.status, favorited |-> FALSE]
    /\ UNCHANGED <<sessions, reports, nextReportId, users, lessons, favorites,
                   nextUserId, nextLessonId>>

\* The suspended requests that hold the same existingFavorite as r: findOne
\* returns the oldest record of the pair, which stays the oldest until it is
\* deleted.
SameFavorite(r) ==
    {q \in inflight :
        /\ q.op = "toggleFavorite" /\ q.stage = "record" /\ q.existing /\ ~q.gone
        /\ q.hdr.token = r.hdr.token /\ ObjectIdOf(q.id) = ObjectIdOf(r.id)
        /\ q.req # r.req}

\* ---- deleteOne({_id: existingFavorite._id}) or insertOne({userEmail,
\* lessonId}), up to the await of the write of users.favorites.
FavWriteRecord(req) ==
    \E r \in Suspended(req) :
       LET key == <<r.hdr.token, ObjectIdOf(r.id)>>
           deletes == r.existing /\ ~r.gone
           next == [r EXCEPT !.stage = "array"]
       IN
       /\ r.op = "toggleFavorite" /\ r.stage = "record"
       /\ db' = db
       /\ favorites' = IF deletes THEN [favorites EXCEPT ![key] = @ - 1]
                       ELSE IF r.existing THEN favorites
                       ELSE [favorites EXCEPT ![key] = @ + 1]
       /\ inflight' = IF deletes
                      THEN ((inflight \ {r}) \ SameFavorite(r))
                             \cup {[q EXCEPT !.gone = TRUE] : q \in SameFavorite(r)}
                             \cup {next}
                      ELSE (inflight \ {r}) \cup {next}
       /\ UNCHANGED <<sessions, reports, nextReportId, users, lessons, nextUserId,
                      nextLessonId, resp>>

\* ---- updateOne({email}, {$pull | $addToSet: {favorites: req.params.id}}),
\* then the response.
FavWriteArray(req) ==
    \E r \in Suspended(req) :
       /\ r.op = "toggleFavorite" /\ r.stage = "array"
       /\ db' = db
       /\ users' = FavoriteArrayWrite(r.hdr.token, r.id, r.existing)
       /\ inflight' = inflight \ {r}
       /\ resp' = [op |-> "toggleFavorite", hdr |-> r.hdr, id |-> r.id,
                   okOps |-> NoFault, status |-> 200, favorited |-> ~r.existing]
       /\ UNCHANGED <<sessions, reports, nextReportId, lessons, favorites,
                      nextUserId, nextLessonId>>

\* A handler that goes on to insertOne whatever its lookup found.
SyncLookup_AlwaysInserts(req, hdr, email) ==
    LET r == SyncUserResult(hdr, email, NoFault)
        goesOn == r.status \in {200, 201}
    IN
    /\ Suspended(req) = {}
    /\ db' = ConnectDB(NoFault)
    /\ inflight' = IF goesOn
                   THEN inflight \cup
                          {[req |-> req, op |-> "syncUser", hdr |-> hdr, email |-> email,
                            existingUser |-> HasUser(email)]}
                   ELSE inflight
    /\ resp' = IF goesOn THEN resp
               ELSE [op |-> "syncUser", hdr |-> hdr, email |-> email, okOps |-> NoFault,
                     status |-> r.status]
    /\ UNCHANGED <<sessions, reports, nextReportId, users, lessons, favorites,
                   nextUserId, nextLessonId>>

\* ---- POST /api/users/:email, from the request to the await of insertOne:
\* verifyToken, the email check and findOne.  A request answered before the
\* insert (401, 403, 200 when the record exists) is not suspended.
SyncLookup(req, hdr, email) ==
    LET r == SyncUserResult(hdr, email, NoFault) IN
    /\ Suspended(req) = {}
    /\ db' = ConnectDB(NoFault)
    /\ inflight' = IF r.insert
                   THEN inflight \cup
                          {[req |-> req, op |-> "syncUser", hdr |-> hdr, email |-> email,
                            existingUser |-> HasUser(email)]}
                   ELSE inflight
    /\ resp' = IF r.insert THEN resp
               ELSE [op |-> "syncUser", hdr |-> hdr, email |-> email, okOps |-> NoFault,
                     status |-> r.status]
    /\ UNCHANGED <<sessions, reports, nextReportId, users, lessons, favorites,
                   nextUserId, nextLessonId>>

\* ---- insertOne(newUser), then the response.
SyncInsert(req) ==
    \E r \in Suspended(req) :
       /\ r.op = "syncUser"
       /\ db' = db
       /\ users' = users \cup {NewUser(nextUserId, r.email)}
       /\ nextUserId' = nextUserId + 1
       /\ inflight' = inflight \ {r}
       /\ resp' = [op |-> "syncUser", hdr |-> r.hdr, email |-> r.email,
                   okOps |-> NoFault, status |-> 201]
       /\ UNCHANGED <<sessions, reports, nextReportId, lessons, favorites,
                      nextLessonId>>

\* ------------------------------------------------- PATCH /api/user/me
\* A body of PATCH /api/user/me: name and photo, and fields the handler does
\* not read.
ProfileBody(name, photo, isPremium) ==
    [name |-> name, photo |-> photo, isPremium |-> isPremium]

\* An update that applies the whole request body with $set.
UpdatedProfile_WholeBody(u, body) ==
    [u EXCEPT
       !.name = IF Truthy(body.name) THEN body.name ELSE @,
       !.photo = IF Truthy(body.photo) THEN body.photo ELSE @,
       !.isPremium = IF body.isPremium # Undefined THEN body.isPremium = "true" ELSE @]

\* updateFields applied with $set: name and photo when the body carries them.
UpdatedProfile(u, body) ==
    [u EXCEPT
       !.name = IF Truthy(body.name) THEN body.name ELSE @,
       !.photo = IF Truthy(body.photo) THEN body.photo ELSE @]

\* Store calls: 1 verifyToken, 2 updateOne; 200 also when no record matches.
UpdateProfileResult(hdr, okOps) ==
    LET auth == VerifyToken(hdr, okOps) IN
    IF ~auth.ok THEN [status |-> auth.status, write |-> FALSE]
    ELSE IF ~StoreOk(2, okOps) THEN [status |-> 500, write |-> FALSE]
    ELSE [status |-> 200, write |-> HasUser(auth.user.email)]

UpdateProfile(hdr, body, okOps) ==
    LET r == UpdateProfileResult(hdr, okOps) IN
    /\ db' = ConnectDB(okOps)
    /\ users' = IF r.write
                THEN LET u == FindUser(hdr.token) IN
                     (users \ {u}) \cup {UpdatedProfile(u, body)}
                ELSE users
    /\ resp' = [op |-> "updateProfile", hdr |-> hdr, body |-> body, okOps |-> okOps,
                status |-> r.status]
    /\ UNCHANGED <<inflight, sessions, reports, nextReportId, lessons, favorites,
                   nextUserId, nextLessonId>>

\* ------------------------------ POST /api/create-checkout-session
\* req.user.isPremium answers 400 before stripe.checkout.sessions.create is
\* called; stripeOk says whether the provider creates the session or the
\* call throws.
CreateCheckoutResult(hdr, okOps, stripeOk) ==
    LET auth == VerifyToken(hdr, okOps) IN
    IF ~auth.ok THEN [status |-> auth.status, requested |-> FALSE, session |-> FALSE]
    ELSE IF auth.user.isPremium
    THEN [status |-> 400, requested |-> FALSE, session |-> FALSE]
    ELSE IF ~stripeOk THEN [status |-> 500, requested |-> TRUE, session |-> FALSE]
    ELSE [status |-> 200, requested |-> TRUE, session |-> TRUE]

\* The session carries the caller's email as client_reference_id and as
\* metadata.userEmail.
CreateCheckout(hdr, okOps, stripeOk) ==
    LET r == CreateCheckoutResult(hdr, okOps, stripeOk) IN
    /\ db' = ConnectDB(okOps)
    /\ sessions' = IF r.session THEN sessions \cup {hdr.token} ELSE sessions
    /\ resp' = [op |-> "createCheckout", hdr |-> hdr, okOps |-> okOps,
                status |-> r.status, requested |-> r.requested]
    /\ UNCHANGED <<inflight, reports, nextReportId, users, lessons, favorites,
                   nextUserId, nextLessonId>>

\* -------------------------------------- GET /api/lessons/related/:id
\* limit(6) of the related lessons.
RelatedLimit == 6

\* The public lessons other than the current one that share its category or
\* its emotionalTone.
RelatedTo(current) ==
    {l \in lessons :
        /\ l._id # current._id
        /\ l.visibility = "public"
        /\ (l.category = current.category \/ l.emotionalTone = current.emotionalTone)}

\* No credential is read.  Store calls: 1 the current lesson, 2 the find.
RelatedLessonsResult(idStr, order, okOps) ==
    IF ~IsValid(idStr) THEN [status |-> 400, lessons |-> <<>>]
    ELSE IF ~StoreOk(1, okOps) THEN [status |-> 500, lessons |-> <<>>]
    ELSE IF ~HasLesson(ObjectIdOf(idStr)) THEN [status |-> 404, lessons |-> <<>>]
    ELSE IF ~StoreOk(2, okOps) THEN [status |-> 500, lessons |-> <<>>]
    ELSE [status |-> 200, lessons |-> PageOf(order, 0, RelatedLimit)]

\* Without a sort the store returns the documents in the order of insertion.
RelatedLessons(idStr, order, okOps) ==
    LET r == RelatedLessonsResult(idStr, order, okOps)
        found == IF IsValid(idStr) /\ HasLesson(ObjectIdOf(idStr))
                 THEN RelatedTo(FindLesson(ObjectIdOf(idStr))) ELSE {}
    IN
    /\ order \in SortedOrders(found, "oldest")
    /\ db' = ConnectDB(okOps)
    /\ resp' = [op |-> "relatedLessons", id |-> idStr, okOps |-> okOps,
                status |-> r.status, lessons |-> r.lessons]
    /\ UNCHANGED <<inflight, sessions, users, lessons, favorites, nextUserId,
                   nextLessonId, reports, nextReportId>>

\* ---------------------------------------- GET /api/public/analytics
\* limit(6) of the most popular lessons.
PopularLimit == 6

\* $group by creatorEmail with a count (of lessons of either visibility).
TopContributors ==
    {[_id |-> e, count |-> Cardinality({l \in lessons : l.creatorEmail = e})] :
        e \in {l.creatorEmail : l \in lessons}}

\* No credential is read.  Store calls: 1 the aggregation, 2 the authors,
\* 3 the most popular public lessons.
AnalyticsResult(order, okOps) ==
    IF ~StoreOk(3, okOps)
    THEN [status |-> 500, topContributors |-> {}, mostPopularLessons |-> <<>>]
    ELSE [status |-> 200, topContributors |-> TopContributors,
          mostPopularLessons |-> PageOf(order, 0, PopularLimit)]

Analytics(order, okOps) ==
    LET r == AnalyticsResult(order, okOps) IN
    /\ order \in SortedOrders({l \in lessons : l.visibility = "public"}, "popular")
    /\ db' = ConnectDB(okOps)
    /\ resp' = [op |-> "analytics", okOps |-> okOps, status |-> r.status,
                topContributors |-> r.topContributors,
                lessons |-> r.mostPopularLessons]
    /\ UNCHANGED <<inflight, sessions, users, lessons, favorites, nextUserId,
                   nextLessonId, reports, nextReportId>>

\* ======================================================= specifications
UserTokens == {Bearer(e) : e \in Emails \ {AdminEmail}}
AdminToken == Bearer(AdminEmail)

\* ---- payment callbacks against a growing users collection
PayEvents ==
    {e \in Events :
        /\ e.session.metadata.userEmail \in {Undefined, AdminEmail, "a@x.com"}
        /\ e.session.client_reference_id \in {Undefined, "a@x.com", "b@x.com"}}

NextPay ==
    \/ \E hdr \in UserTokens \cup {NoHeader}, okOps \in {2, NoFault} :
         SyncUser(hdr, hdr.token, okOps)
    \/ \E sigValid \in BOOLEAN, event \in PayEvents, okOps \in {0, NoFault} :
         \E rejected \in IF sigValid /\ event.type = CheckoutCompleted
                            /\ SessionThrows(event.session)
                         THEN RejectionOutcomes ELSE {Unanswered} :
            StripeWebhook(sigValid, event, okOps, rejected)

SpecPay == Init /\ [][NextPay]_vars

\* ---- reads of single lessons by every kind of caller
\* A request body of POST /api/lessons or PATCH /api/lessons/:id.
Body(visibility, accessLevel) ==
    [title |-> "Letting go", description |-> "What the year taught me",
     category |-> "grief", emotionalTone |-> "sad", image |-> Undefined,
     visibility |-> visibility, accessLevel |-> accessLevel,
     isFeatured |-> Undefined, isReviewed |-> Undefined]

UpgradeEvent(e) ==
    [type |-> CheckoutCompleted,
     session |-> [metadata |-> [present |-> TRUE, userEmail |-> e],
                  client_reference_id |-> e]]

AccessHeaders == Headers \ {BasicHeader}
AccessIds == {s \in LowerIdStrings : s.n <= MaxAccessLessons + 1}

NextAccess ==
    \/ \E hdr \in UserTokens : SyncUser(hdr, hdr.token, NoFault)
    \/ \E e \in Emails : StripeWebhook(TRUE, UpgradeEvent(e), NoFault, Unanswered)
    \/ \E visibility \in {"public", "private"}, accessLevel \in {"free", "premium"} :
         /\ nextLessonId <= MaxAccessLessons
         /\ CreateLesson(Bearer("a@x.com"), Body(visibility, accessLevel), NoFault)
    \/ \E hdr \in AccessHeaders, idStr \in AccessIds, okOps \in Faults :
         GetById(hdr, idStr, okOps)

SpecAccess == Init /\ [][NextAccess]_vars

\* ---- likes on lessons that are created and updated meanwhile
LikeTokens == UserTokens \cup {NoHeader}
LikeIds == {s \in IdStrings : s.n <= MaxLikeLessons}

NextLike ==
    \/ /\ nextLessonId <= MaxLikeLessons
       /\ CreateLesson(Bearer("a@x.com"), Body("public", "free"), NoFault)
    \/ \E idStr \in LikeIds \cap LowerIdStrings, visibility \in {"public", "private"} :
         UpdateLesson(Bearer("a@x.com"), idStr, Body(visibility, Undefined), NoFault)
    \/ \E hdr \in LikeTokens, idStr \in LikeIds, okOps \in {2, NoFault} :
         ToggleLike(hdr, idStr, okOps)

SpecLike == Init /\ [][NextLike]_vars

\* ---- favorites of callers with and without a user record
FavIds == {s \in IdStrings : s.n <= MaxFavLessons /\ s.n > 0}

NextFav ==
    \/ SyncUser(Bearer("a@x.com"), "a@x.com", NoFault)
    \/ \E id \in UserIdStrings : DeleteUser(AdminToken, id, NoFault)
    \/ /\ nextLessonId <= MaxFavLessons
       /\ CreateLesson(Bearer("a@x.com"), Body("public", "free"), NoFault)
    \/ \E idStr \in FavIds \cap LowerIdStrings :
         DeleteLesson(Bearer("a@x.com"), idStr, NoFault)
    \/ \E hdr \in UserTokens, idStr \in FavIds : ToggleFavorite(hdr, idStr, NoFault)

SpecFav == Init /\ [][NextFav]_vars

\* ---- reports on lessons that are deleted meanwhile
ModIds == {s \in LowerIdStrings : s.n >= 1 /\ s.n <= MaxModLessons}

NextMod ==
    \/ /\ nextLessonId <= MaxModLessons
       /\ CreateLesson(Bearer("a@x.com"), Body("public", "free"), NoFault)
    \/ \E idStr \in ModIds : FileReport(Bearer("b@x.com"), idStr, "spam", NoFault)
    \/ \E idStr \in ModIds : DeleteLesson(Bearer("a@x.com"), idStr, NoFault)
    \/ \E idStr \in ModIds : AdminDeleteLesson(AdminToken, idStr, NoFault)
    \/ \E q \in ModIds \cup {NoId}, okOps \in {1, NoFault} :
         ListReports(AdminToken, q, okOps)
    \/ \E okOps \in {1, NoFault} : ReportedLessons(AdminToken, okOps)
    \/ \E idStr \in ReportIdStrings : ResolveReport(AdminToken, idStr, NoFault)

SpecMod == Init /\ [][NextMod]_vars

\* ---- callers resolved by verifyToken before and after they have a record
IdentIds == {s \in LowerIdStrings : s.n >= 1 /\ s.n <= MaxIdentLessons}

NextIdent ==
    \/ \E hdr \in UserTokens :
         \E email \in {hdr.token, "a@x.com"} : SyncUser(hdr, email, NoFault)
    \/ \E hdr \in UserTokens :
         /\ nextLessonId <= MaxIdentLessons
         /\ CreateLesson(hdr, Body("public", "free"), NoFault)
    \/ \E hdr \in UserTokens, idStr \in IdentIds : ToggleLike(hdr, idStr, NoFault)
    \/ \E idStr \in UserIdStrings \ {Malformed}, role \in {"admin", "user"} :
         /\ ObjectIdOf(idStr) # InitAdmin._id
         /\ SetRole(AdminToken, idStr, role, NoFault)
    \/ \E e \in Emails \ {AdminEmail} :
         StripeWebhook(TRUE, UpgradeEvent(e), NoFault, Unanswered)

SpecIdent == Init /\ [][NextIdent]_vars

\* ---- updates and deletes of one lesson by its creator, a stranger, the admin
\* A request body that carries no field.
EmptyBody ==
    [title |-> Undefined, description |-> Undefined, category |-> Undefined,
     emotionalTone |-> Undefined, image |-> Undefined, visibility |-> Undefined,
     accessLevel |-> Undefined, isFeatured |-> Undefined, isReviewed |-> Undefined]

\* Bodies of PATCH /api/lessons/:id: fields with the empty string, an image
\* with a visibility, a tier change with another field, a moderation flag.
EditBodies ==
    {[EmptyBody EXCEPT !.title = "", !.image = ""],
     [EmptyBody EXCEPT !.image = "sea.png", !.visibility = "private"],
     [EmptyBody EXCEPT !.accessLevel = "premium", !.title = "Holding on"],
     [EmptyBody EXCEPT !.accessLevel = "free", !.isFeatured = "true"]}

EditHeaders == {Bearer("a@x.com"), Bearer("b@x.com"), AdminToken}

\* The id, as the URL carries it, of the document a collection stored last
\* (deleted since, or none yet: an id that is well-formed and not found).
LatestId(next) == [n |-> next - 1, case |-> "lower"]

\* One lesson at a time: the next is created when the last has been deleted.
NextEdit ==
    \/ SyncUser(Bearer("a@x.com"), "a@x.com", NoFault)
    \/ StripeWebhook(TRUE, UpgradeEvent("a@x.com"), NoFault, Unanswered)
    \/ \E accessLevel \in {"free", "premium"} :
         /\ lessons = {}
         /\ CreateLesson(Bearer("a@x.com"), Body("public", accessLevel), NoFault)
    \/ ToggleLike(Bearer("b@x.com"), LatestId(nextLessonId), NoFault)
    \/ \E hdr \in EditHeaders, body \in EditBodies :
         \E okOps \in IF hdr = Bearer("a@x.com") THEN {2, NoFault} ELSE {NoFault} :
            UpdateLesson(hdr, LatestId(nextLessonId), body, okOps)
    \/ \E hdr \in EditHeaders :
         \E okOps \in IF hdr = Bearer("a@x.com") THEN {2, NoFault} ELSE {NoFault} :
            DeleteLesson(hdr, LatestId(nextLessonId), okOps)

SpecEdit == Init /\ [][NextEdit]_vars

\* ---- a lesson created and read back
\* Bodies of POST /api/lessons: every visibility and accessLevel, given or
\* left out, with and without an image.
RoundBodies ==
    {[Body(visibility, accessLevel) EXCEPT !.image = image] :
        visibility \in {"public", "private", Undefined},
        accessLevel \in {"free", "premium", Undefined},
        image \in {Undefined, "", "sea.png"}}

RoundHeaders == {Bearer("a@x.com"), Bearer("b@x.com")}
RoundIds == {s \in LowerIdStrings : s.n >= 1 /\ s.n <= MaxLessons}

\* One lesson at a time: the next is created when the last has been deleted.
NextRound ==
    \/ SyncUser(Bearer("a@x.com"), "a@x.com", NoFault)
    \/ StripeWebhook(TRUE, UpgradeEvent("a@x.com"), NoFault, Unanswered)
    \/ \E hdr \in RoundHeaders, body \in RoundBodies :
         /\ lessons = {}
         /\ CreateLesson(hdr, body, NoFault)
    \/ \E hdr \in RoundHeaders, idStr \in RoundIds : DeleteLesson(hdr, idStr, NoFault)
    \/ \E hdr \in RoundHeaders \cup {NoHeader}, idStr \in RoundIds :
         GetById(hdr, idStr, NoFault)

SpecRound == Init /\ [][NextRound]_vars

\* ---- the public listing over lessons of both visibilities
\* The query string of GET /api/lessons.
Query(category, sort, page, limit) ==
    [category |-> category, emotionalTone |-> Undefined, search |-> Undefined,
     featured |-> Undefined, creatorEmail |-> Undefined, sort |-> sort,
     page |-> page, limit |-> limit]

ListQueries ==
    {Query(category, sort, Undefined, Undefined) :
        category \in {Undefined, "grief"},
        sort \in {Undefined, "popular", "oldest", "best"}}
    \cup {Query(Undefined, "popular", "2", "1"),
          Query("grief", Undefined, "2", "1"),
          Query(Undefined, Undefined, "-1", Undefined),
          [Query("grief", Undefined, Undefined, Undefined) EXCEPT !.search = "LET"],
          [Query(Undefined, "newest", Undefined, Undefined) EXCEPT
              !.creatorEmail = "a@x.com", !.emotionalTone = "sad"]}

ListBodies ==
    {[Body("public", "free") EXCEPT !.category = "grief"],
     [Body("private", "free") EXCEPT !.category = "grief"],
     [Body("public", "free") EXCEPT !.category = "joy"]}

NextList ==
    \/ \E body \in ListBodies : CreateLesson(Bearer("a@x.com"), body, NoFault)
    \/ ToggleLike(Bearer("b@x.com"), [n |-> 1, case |-> "lower"], NoFault)
    \/ \E query \in ListQueries :
         \E okOps \in IF query.category = Undefined /\ query.sort = Undefined
                      THEN {0, 1, NoFault} ELSE {NoFault} :
            \E order \in SortedOrders(Matching(query), query.sort) :
               ListLessons(query, order, okOps)

SpecList == Init /\ [][NextList]_vars

\* ---- every route behind verifyToken, called without a credential
\* Requests without a credential the identity provider accepts, and the
\* requests of one signed-in user that fill the collections.
NoCredential == {NoHeader, BasicHeader, BadBearer}
AuthHeaders == NoCredential \cup {Bearer("a@x.com")}
AuthIds == {s \in LowerIdStrings : s.n >= 1 /\ s.n <= MaxAuthLessons}

NextAuth ==
    \/ \E hdr \in AuthHeaders : SyncUser(hdr, "a@x.com", NoFault)
    \/ \E hdr \in NoCredential : ListUsers(hdr, NoFault)
    \/ \E hdr \in NoCredential :
         SetRole(hdr, [n |-> 1, case |-> "lower"], "user", NoFault)
    \/ \E hdr \in NoCredential :
         DeleteUser(hdr, [n |-> 1, case |-> "lower"], NoFault)
    \/ \E hdr \in NoCredential :
         AdminListLessons(hdr, Undefined, Undefined, "true", NoFault)
    \/ \E hdr \in NoCredential, idStr \in AuthIds : AdminDeleteLesson(hdr, idStr, NoFault)
    \/ \E hdr \in NoCredential : AdminStats(hdr, NoFault)
    \/ \E hdr \in AuthHeaders, idStr \in AuthIds :
         /\ reports = {}
         /\ FileReport(hdr, idStr, "spam", NoFault)
    \/ \E hdr \in NoCredential : ListReports(hdr, NoId, NoFault)
    \/ \E hdr \in NoCredential, idStr \in ReportIdStrings \ {Malformed} :
         ResolveReport(hdr, idStr, NoFault)
    \/ \E hdr \in NoCredential : ReportedLessons(hdr, NoFault)
    \/ \E hdr \in AuthHeaders :
         /\ nextLessonId <= MaxAuthLessons
         /\ CreateLesson(hdr, Body("public", "free"), NoFault)
    \/ \E hdr \in AuthHeaders, idStr \in AuthIds :
         UpdateLesson(hdr, idStr, Body("private", Undefined), NoFault)
    \/ \E hdr \in NoCredential, idStr \in AuthIds : DeleteLesson(hdr, idStr, NoFault)
    \/ \E hdr \in NoCredential, idStr \in AuthIds : ToggleLike(hdr, idStr, NoFault)
    \/ \E hdr \in AuthHeaders, idStr \in AuthIds : ToggleFavorite(hdr, idStr, NoFault)

SpecAuth == Init /\ [][NextAuth]_vars

\* ---- the admin routes called by an admin, a user and a caller without record
AdminCallers == {Bearer("a@x.com"), Bearer("b@x.com"), AdminToken}

\* One lesson and one report at a time; the admin routes aim at the record,
\* the lesson and the report stored last.  The first admin's record is left
\* alone.
NextAdmin ==
    \/ SyncUser(Bearer("a@x.com"), "a@x.com", NoFault)
    \/ /\ lessons = {} /\ nextLessonId <= MaxAdminLessons
       /\ CreateLesson(Bearer("a@x.com"), Body("public", "free"), NoFault)
    \/ /\ reports = {}
       /\ FileReport(Bearer("b@x.com"), LatestId(nextLessonId), "spam", NoFault)
    \/ \E hdr \in AdminCallers, okOps \in {1, NoFault} : ListUsers(hdr, okOps)
    \/ \E hdr \in AdminCallers, role \in {"admin", "user", "owner"} :
         /\ nextUserId > InitAdmin._id + 1
         /\ SetRole(hdr, LatestId(nextUserId), role, NoFault)
    \/ \E hdr \in AdminCallers :
         /\ nextUserId > InitAdmin._id + 1
         /\ DeleteUser(hdr, LatestId(nextUserId), NoFault)
    \/ \E hdr \in AdminCallers : AdminListLessons(hdr, Undefined, "public", "true", NoFault)
    \/ \E hdr \in AdminCallers : AdminDeleteLesson(hdr, LatestId(nextLessonId), NoFault)
    \/ \E hdr \in AdminCallers : AdminStats(hdr, NoFault)
    \/ \E hdr \in AdminCallers : ListReports(hdr, NoId, NoFault)
    \/ \E hdr \in AdminCallers : ResolveReport(hdr, LatestId(nextReportId), NoFault)
    \/ \E hdr \in AdminCallers : ReportedLessons(hdr, NoFault)

SpecAdmin == Init /\ [][NextAdmin]_vars

\* ---- requests during which the store becomes unreachable
FaultHeaders == {NoHeader, Bearer("a@x.com"), Bearer("b@x.com")}

\* One lesson at a time; every request at the lesson stored last.
NextFault ==
    \/ \E okOps \in {0, 1, 2, NoFault} : SyncUser(Bearer("a@x.com"), "a@x.com", okOps)
    \/ StripeWebhook(TRUE, UpgradeEvent("a@x.com"), NoFault, Unanswered)
    \/ \E visibility \in {"public", "private"}, accessLevel \in {"free", "premium"} :
         \E okOps \in {0, 1, NoFault} :
            /\ lessons = {}
            /\ CreateLesson(Bearer("a@x.com"), Body(visibility, accessLevel), okOps)
    \/ \E hdr \in FaultHeaders, okOps \in Faults :
         GetById(hdr, LatestId(nextLessonId), okOps)
    \/ \E okOps \in {0, 1, 2, NoFault} :
         ToggleLike(Bearer("b@x.com"), LatestId(nextLessonId), okOps)
    \/ \E okOps \in {0, 1, 2, NoFault} :
         DeleteLesson(Bearer("a@x.com"), LatestId(nextLessonId), okOps)

SpecFault == Init /\ [][NextFault]_vars

\* ---- favorites listed while lessons are deleted
ShelfIds == {s \in LowerIdStrings : s.n >= 1 /\ s.n <= MaxShelfLessons}

NextShelf ==
    \/ \E category \in {"grief", "joy"} :
         /\ nextLessonId <= MaxShelfLessons
         /\ CreateLesson(Bearer("a@x.com"),
                         [Body("public", "free") EXCEPT !.category = category], NoFault)
    \/ \E idStr \in ShelfIds : DeleteLesson(Bearer("a@x.com"), idStr, NoFault)
    \/ \E hdr \in UserTokens, idStr \in ShelfIds : ToggleFavorite(hdr, idStr, NoFault)
    \/ \E hdr \in {Bearer("b@x.com"), BadBearer},
          category \in {Undefined, "joy"}, emotionalTone \in {Undefined, "", "sad"},
          okOps \in {1, NoFault} :
         ListFavorites(hdr, category, emotionalTone, okOps)

SpecShelf == Init /\ [][NextShelf]_vars

\* ---- likes by requests that interleave
\* One lesson at a time.
NextLikeRace ==
    \/ /\ lessons = {}
       /\ CreateLesson(Bearer("a@x.com"), Body("public", "free"), NoFault)
    \/ DeleteLesson(Bearer("a@x.com"), LatestId(nextLessonId), NoFault)
    \/ \E req \in Requests, hdr \in UserTokens \cup {BadBearer} :
         /\ \A l \in lessons : l.likesCount \in (0 - MaxLikesCount)..MaxLikesCount
         /\ LikeRead(req, hdr, LatestId(nextLessonId))
    \/ \E req \in Requests : LikeWrite(req)

SpecLikeRace == Init /\ [][NextLikeRace]_vars

\* ---- favorites toggled by requests of one caller that interleave
\* The caller has a user record before the first toggle; one lesson.
NextFavRace ==
    \/ SyncUser(Bearer("a@x.com"), "a@x.com", NoFault)
    \/ /\ lessons = {} /\ nextLessonId <= MaxFavLessons
       /\ CreateLesson(Bearer("b@x.com"), Body("public", "free"), NoFault)
    \/ \E req \in Requests, hdr \in {Bearer("a@x.com"), BadBearer} :
         /\ HasUser("a@x.com")
         /\ \A id \in LessonIds : favorites[<<"a@x.com", id>>] <= MaxFavRecords
         /\ FavRead(req, hdr, LatestId(nextLessonId))
    \/ \E req \in Requests : FavWriteRecord(req)
    \/ \E req \in Requests : FavWriteArray(req)

SpecFavRace == Init /\ [][NextFavRace]_vars

\* ---- first requests of new callers that interleave
\* A request is taken up while the users collection has ids left for it and
\* for the requests already suspended.
NextSyncRace ==
    \/ \E req \in Requests :
       \E hdr \in UserTokens \cup {AdminToken, BadBearer, NoHeader} :
         \E email \in {hdr.token, "a@x.com"} :
            /\ nextUserId + Cardinality(inflight) <= MaxUsers
            /\ SyncLookup(req, hdr, email)
    \/ \E req \in Requests : SyncInsert(req)
    \/ /\ nextUserId > InitAdmin._id + 1
       /\ DeleteUser(AdminToken, LatestId(nextUserId), NoFault)

SpecSyncRace == Init /\ [][NextSyncRace]_vars

\* ---- a caller who pays, and what happens to the record afterwards
NextPremium ==
    \/ SyncUser(Bearer("a@x.com"), "a@x.com", NoFault)
    \/ \E stripeOk \in BOOLEAN : CreateCheckout(Bearer("a@x.com"), NoFault, stripeOk)
    \/ StripeWebhook(TRUE, UpgradeEvent("a@x.com"), NoFault, Unanswered)
    \/ \E body \in {ProfileBody("Ada", Undefined, Undefined),
                    ProfileBody(Undefined, "ada.png", "false")} :
         UpdateProfile(Bearer("a@x.com"), body, NoFault)
    \/ \E role \in {"admin", "user"} :
         /\ nextUserId > InitAdmin._id + 1
         /\ SetRole(AdminToken, LatestId(nextUserId), role, NoFault)
    \/ /\ nextUserId > InitAdmin._id + 1
       /\ DeleteUser(AdminToken, LatestId(nextUserId), NoFault)
    \/ /\ nextLessonId <= MaxPremiumLessons
       /\ CreateLesson(Bearer("a@x.com"), Body("public", "premium"), NoFault)
    \/ ToggleLike(Bearer("a@x.com"), LatestId(nextLessonId), NoFault)
    \/ ToggleFavorite(Bearer("a@x.com"), LatestId(nextLessonId), NoFault)

SpecPremium == Init /\ [][NextPremium]_vars

\* ---- moderation flags in updates by the creator, a stranger, an admin
FlagBodies ==
    {[EmptyBody EXCEPT !.isFeatured = "true", !.title = "Holding on"],
     [EmptyBody EXCEPT !.isReviewed = "true", !.visibility = "private"],
     [EmptyBody EXCEPT !.isFeatured = "false", !.isReviewed = "false"]}

\* One lesson at a time; its creator is made admin and user again meanwhile.
NextFlags ==
    \/ SyncUser(Bearer("a@x.com"), "a@x.com", NoFault)
    \/ \E role \in {"admin", "user"} :
         /\ nextUserId > InitAdmin._id + 1
         /\ SetRole(AdminToken, LatestId(nextUserId), role, NoFault)
    \/ /\ lessons = {}
       /\ CreateLesson(Bearer("a@x.com"), Body("public", "free"), NoFault)
    \/ \E hdr \in EditHeaders, body \in FlagBodies :
         UpdateLesson(hdr, LatestId(nextLessonId), body, NoFault)
    \/ DeleteLesson(Bearer("a@x.com"), LatestId(nextLessonId), NoFault)

SpecFlags == Init /\ [][NextFlags]_vars

\* ---- every route that returns lessons, over lessons of every kind
ExposureIds == {s \in LowerIdStrings : s.n >= 1 /\ s.n <= MaxExposureLessons}
ExposureReaders == {NoHeader, Bearer("a@x.com"), Bearer("b@x.com")}

\* a@x.com writes the lessons and can pay; b@x.com has a record and reads.
NextExposure ==
    \/ \E hdr \in UserTokens : SyncUser(hdr, hdr.token, NoFault)
    \/ StripeWebhook(TRUE, UpgradeEvent("a@x.com"), NoFault, Unanswered)
    \/ \E visibility \in {"public", "private"}, accessLevel \in {"free", "premium"} :
         /\ nextLessonId <= MaxExposureLessons
         /\ CreateLesson(Bearer("a@x.com"), Body(visibility, accessLevel), NoFault)
    \/ \E idStr \in ExposureIds : ToggleFavorite(Bearer("b@x.com"), idStr, NoFault)
    \/ \E hdr \in ExposureReaders, idStr \in ExposureIds : GetById(hdr, idStr, NoFault)
    \/ \E hdr \in ExposureReaders \ {NoHeader} :
         ListFavorites(hdr, Undefined, Undefined, NoFault)
    \/ \E order \in SortedOrders(Matching(Query(Undefined, Undefined, Undefined, Undefined)),
                                 Undefined) :
         ListLessons(Query(Undefined, Undefined, Undefined, Undefined), order, NoFault)
    \/ \E idStr \in ExposureIds :
         \E order \in {<<>>} \cup
                      UNION {SortedOrders(RelatedTo(l), "oldest") : l \in lessons} :
            RelatedLessons(idStr, order, NoFault)
    \/ \E order \in SortedOrders({l \in lessons : l.visibility = "public"}, "popular") :
         Analytics(order, NoFault)

SpecExposure == Init /\ [][NextExposure]_vars

\* ---- checkout sessions and the payment events that complete them
\* A caller may pay with or without a user record; the provider sends the
\* completed event only for a session it created.
CheckoutFaults == {0, NoFault}

NextCheckout ==
    \/ \E hdr \in UserTokens : SyncUser(hdr, hdr.token, NoFault)
    \/ \E hdr \in UserTokens, okOps \in CheckoutFaults, stripeOk \in BOOLEAN :
         CreateCheckout(hdr, okOps, stripeOk)
    \/ \E sigValid \in BOOLEAN, e \in sessions, okOps \in CheckoutFaults :
         StripeWebhook(sigValid, UpgradeEvent(e), okOps, Unanswered)

SpecCheckout == Init /\ [][NextCheckout]_vars

\* =============================================================== claims
\* The stored collections (the connection handle and the last response are
\* not stored data).
Stored == <<users, lessons, favorites, reports>>

\* ---- the last request read one lesson
PrivateErrors ==
    {"Private lesson - Authentication required",
     "Private lesson - Invalid token",
     "Private lesson - Restricted access"}

PremiumErrors ==
    {"Premium lesson - Authentication required",
     "Premium lesson - Invalid authentication",
     "Premium lesson - Premium subscription required"}

\* The last request was getById and its lookup of the lesson found one.
ReadLesson ==
    /\ resp.op = "getById"
    /\ IsValid(resp.id)
    /\ resp.okOps >= 1
    /\ HasLesson(ObjectIdOf(resp.id))

TheLesson == FindLesson(ObjectIdOf(resp.id))

\* The caller of the last request, as the spec's decide sees it: absent
\* (no credential, or one the identity provider rejects), or the verified
\* email with the stored role and isPremium (the defaults without a record).
CallerPresent == resp.hdr.kind = "bearer" /\ resp.hdr.token \in Emails
CallerEmail == resp.hdr.token
CallerIsAdmin ==
    \E u \in users : u.email = CallerEmail /\ u.role = "admin"
CallerIsPremium ==
    \E u \in users : u.email = CallerEmail /\ u.isPremium = TRUE
CallerIsCreator == CallerEmail = TheLesson.creatorEmail

\* C1: getById on a private lesson by anyone who is neither its creator nor
\* an admin (anonymous and invalid-token callers included) is denied with
\* 403 and a private-content reason, whatever the accessLevel; the denial
\* never carries the premium reason nor isPremiumContent.
C1_PrivateDenied ==
    (/\ ReadLesson
     /\ TheLesson.visibility = "private"
     /\ ~(CallerPresent /\ (CallerIsCreator \/ CallerIsAdmin))) =>
        /\ resp.status = 403
        /\ resp.error \in PrivateErrors
        /\ ~resp.isPremiumContent
        /\ resp.lesson = <<>>

\* C1 witness: a signed-in stranger has been denied a private premium lesson.
C1_Witness ==
    /\ ReadLesson
    /\ TheLesson.visibility = "private" /\ TheLesson.accessLevel = "premium"
    /\ resp.hdr = Bearer("b@x.com") /\ HasUser("b@x.com")
    /\ resp.okOps = NoFault
    /\ resp.status = 403 /\ resp.error = "Private lesson - Restricted access"

DecideAllows ==
    /\ TheLesson.visibility = "private" =>
          (CallerPresent /\ (CallerIsCreator \/ CallerIsAdmin))
    /\ TheLesson.accessLevel = "premium" =>
          (CallerPresent /\ CallerIsPremium)

\* C3: with the store answering, getById returns the lesson exactly when
\* decide allows, for every visibility, accessLevel and caller.
C3_ServedIffAllowed ==
    (ReadLesson /\ resp.okOps = NoFault) =>
        /\ (resp.status = 200) <=> DecideAllows
        /\ (resp.status = 200) => resp.lesson = <<TheLesson>>
        /\ (resp.status # 200) => (resp.status = 403 /\ resp.lesson = <<>>)

\* C3 witness: an admin who is not the creator has been served a private
\* free lesson.
C3_Witness ==
    /\ ReadLesson /\ resp.okOps = NoFault
    /\ TheLesson.visibility = "private" /\ TheLesson.accessLevel = "free"
    /\ resp.hdr = AdminToken /\ ~CallerIsCreator
    /\ resp.status = 200 /\ resp.lesson = <<TheLesson>>

\* C4: after any sequence of toggleLike calls, interleaved with lesson
\* create and update, every lesson has likesCount equal to the number of
\* emails in likes; each successful call flips exactly the caller's
\* membership in that lesson's likes and reports liked equal to the
\* membership after the call; a call that fails changes no lesson.
LikesCountMatches == \A l \in lessons : l.likesCount = Cardinality(l.likes)

ToggleLikeFlips ==
    resp'.op = "toggleLike" =>
        IF resp'.status = 200
        THEN LET id == ObjectIdOf(resp'.id)
                 e == resp'.hdr.token
                 before == FindLesson(id)
                 after == CHOOSE l \in lessons' : l._id = id
             IN /\ HasLesson(id) /\ \E l \in lessons' : l._id = id
                /\ (e \in after.likes) # (e \in before.likes)
                /\ resp'.liked = (e \in after.likes)
                /\ after.likes \ {e} = before.likes \ {e}
                /\ \A l \in lessons : l._id # id => l \in lessons'
                /\ Cardinality(lessons') = Cardinality(lessons)
        ELSE lessons' = lessons

C4_LikesCount == []LikesCountMatches /\ [][ToggleLikeFlips]_vars

\* C4 witness: after two likes of one lesson, one of the two callers has
\* unliked it; its update in between has left the likes alone.
C4_Witness ==
    /\ resp.op = "toggleLike" /\ resp.status = 200 /\ ~resp.liked
    /\ resp.hdr = Bearer("a@x.com")
    /\ \E l \in lessons :
          /\ l._id = ObjectIdOf(resp.id)
          /\ l.likes = {"b@x.com"} /\ l.likesCount = 1
          /\ l.visibility = "private"

\* C5 (as claimed): two toggleFavorite calls in sequence by the same caller
\* on the same existing lesson report opposite favorited values and leave
\* both the favorites collection and the caller's users.favorites array with
\* the membership they had before the first call.
C5_DoubleToggleRestores ==
    [][(/\ resp.op = "toggleFavorite" /\ resp.status = 200
        /\ resp'.op = "toggleFavorite" /\ resp'.status = 200
        /\ resp'.hdr = resp.hdr
        /\ ObjectIdOf(resp'.id) = ObjectIdOf(resp.id)) =>
          LET e == resp.hdr.token
              id == ObjectIdOf(resp.id)
          IN /\ resp'.favorited = ~resp.favorited
             /\ (id \in FavRecordIds(e)') = resp.recBefore
             /\ (id \in FavArrayIds(e)') = resp.arrBefore]_vars

\* C6 (as claimed): with no two requests overlapping and the store
\* answering, for every email the lessons held in favorites-collection
\* records equal the lessons in that email's users.favorites array, after
\* any sequence of sync-user, toggleFavorite, admin delete-user and lesson
\* delete, also for a caller without a user record.
C6_FavoritesAgree == \A e \in Emails : FavRecordIds(e) = FavArrayIds(e)

\* C7: a payment callback whose signature fails verification is answered
\* 400 and changes no user record (nor any other stored document), whatever
\* event type and metadata its body carries.
C7_InvalidSignatureRejected ==
    [][(resp'.op = "webhook" /\ ~resp'.sigValid) =>
          /\ resp'.status = 400
          /\ ~resp'.received
          /\ Stored' = Stored]_vars

\* C7 witness: an unverified checkout-completed event naming an existing,
\* non-premium user has been answered 400.
C7_Witness ==
    /\ resp.op = "webhook" /\ ~resp.sigValid /\ resp.status = 400
    /\ resp.event.type = CheckoutCompleted
    /\ resp.event.session.metadata.userEmail = "a@x.com"
    /\ resp.okOps = NoFault
    /\ HasUser("a@x.com") /\ ~FindUser("a@x.com").isPremium

\* C8: a verified checkout-completed callback whose metadata names email e
\* sets isPremium on the record with email e (the store answering) and
\* changes nothing else: no other record, no other field, no record created
\* or removed; a verified event of another type changes no stored document.
C8_WebhookFrame ==
    [][(resp'.op = "webhook" /\ resp'.sigValid) =>
          LET ev == resp'.event
              e == ev.session.metadata.userEmail
          IN /\ lessons' = lessons /\ favorites' = favorites
             /\ (ev.type = CheckoutCompleted /\ e # Undefined) =>
                  /\ {u._id : u \in users'} = {u._id : u \in users}
                  /\ \A u \in users, v \in users' :
                        u._id = v._id =>
                          \/ v = u
                          \/ u.email = e /\ v = [u EXCEPT !.isPremium = TRUE]
                  /\ (resp'.okOps = NoFault) =>
                        \A v \in users' : v.email = e => v.isPremium
             /\ ev.type # CheckoutCompleted => users' = users]_vars

\* C8 witness: the admin has been upgraded by a verified callback, is still
\* admin, and another user's record is still not premium.
C8_Witness ==
    /\ resp.op = "webhook" /\ resp.sigValid /\ resp.status = 200
    /\ resp.event.type = CheckoutCompleted
    /\ resp.event.session.metadata.userEmail = AdminEmail
    /\ FindUser(AdminEmail).isPremium /\ FindUser(AdminEmail).role = "admin"
    /\ HasUser("a@x.com") /\ ~FindUser("a@x.com").isPremium
    /\ ~HasUser("b@x.com")

\* C9 (as claimed): every signature-verified payment callback is
\* acknowledged with {received: true} and HTTP 200.
C9_AlwaysAcknowledged ==
    (resp.op = "webhook" /\ resp.sigValid) => (resp.status = 200 /\ resp.received)

\* C10 (as claimed): on a verified checkout-completed callback the upgraded
\* email is metadata.userEmail when present and client_reference_id
\* otherwise, also when metadata is absent; the callback is acknowledged.
C10_UpgradedEmail ==
    (/\ resp.op = "webhook" /\ resp.sigValid /\ resp.okOps = NoFault
     /\ resp.event.type = CheckoutCompleted) =>
        LET session == resp.event.session
            e == IF session.metadata.present /\ session.metadata.userEmail # Undefined
                 THEN session.metadata.userEmail
                 ELSE session.client_reference_id
        IN (e # Undefined /\ HasUser(e)) =>
              (FindUser(e).isPremium /\ resp.status = 200 /\ resp.received)

\* C11: a report outlives its lesson.  listReports returns every stored
\* report (of the lesson asked for, when one is), a report whose lesson
\* has been deleted without a lesson field and every other with its lesson;
\* aggregatedReportedItems has an entry, with the count of its reports, for
\* exactly the reported lessons that still exist; and no delete of a lesson,
\* by its creator or by an admin, removes or alters a report.
ListReportsKeepsAll ==
    (resp.op = "listReports" /\ resp.status = 200) =>
        LET out == resp.reports
            asked == IF resp.lessonId = NoId THEN reports
                     ELSE {r \in reports : r.lessonId = ObjectIdOf(resp.lessonId)}
        IN /\ {out[i].report : i \in 1..Len(out)} = asked
           /\ Len(out) = Cardinality(asked)
           /\ \A i \in 1..Len(out) :
                 IF HasLesson(out[i].report.lessonId)
                 THEN out[i].lesson = <<FindLesson(out[i].report.lessonId)>>
                 ELSE out[i].lesson = <<>>

AggregateDropsDeleted ==
    (resp.op = "reportedLessons" /\ resp.status = 200) =>
        /\ {it._id : it \in resp.items} =
              {r.lessonId : r \in reports} \cap {l._id : l \in lessons}
        /\ \A it \in resp.items :
              it.reportCount = Cardinality({r \in reports : r.lessonId = it._id})

DeleteKeepsReports ==
    resp'.op \in {"deleteLesson", "adminDeleteLesson"} => reports' = reports

C11_ReportsOutliveLesson ==
    /\ [](ListReportsKeepsAll /\ AggregateDropsDeleted)
    /\ [][DeleteKeepsReports]_vars

\* C11 witness: the reports are listed after a reported lesson was deleted;
\* one report comes without its lesson, another with it.
C11_Witness ==
    /\ resp.op = "listReports" /\ resp.status = 200 /\ resp.lessonId = NoId
    /\ \E i, j \in 1..Len(resp.reports) :
          /\ resp.reports[i].lesson = <<>>
          /\ resp.reports[i].report.lessonId < nextLessonId
          /\ resp.reports[j].lesson # <<>>

\* ---- the last request passed verifyToken
\* Routes of SpecIdent behind verifyToken: sync-user, which creates the
\* caller's record itself, and routes whose handlers write no user.
ResolvingOps == {"syncUser", "createLesson", "toggleLike"}
HandlerOps == ResolvingOps \ {"syncUser"}

\* C12 (as claimed): whenever verifyToken has verified the credential of a
\* request, a user record for the caller's email exists by the time the
\* handler has run: verifyToken persists one, with role user and isPremium
\* false, when there was none.
C12_ResolveCreatesUser ==
    (/\ resp.op \in HandlerOps
     /\ resp.hdr.kind = "bearer" /\ TokenValid(resp.hdr.token)
     /\ resp.okOps = NoFault) =>
        HasUser(resp.hdr.token)

\* C13 (as claimed): of the identity-creation calls for one email made one
\* after another (sync-user for the caller's own email, or the resolution
\* in verifyToken), the first for an unseen email inserts exactly one record
\* with role user and isPremium false, and every later one inserts nothing
\* and leaves the stored role and isPremium as they are.
C13_OneInsertPerEmail ==
    [][(/\ resp'.op \in ResolvingOps
        /\ resp'.hdr.kind = "bearer" /\ TokenValid(resp'.hdr.token)
        /\ resp'.op = "syncUser" => resp'.email = resp'.hdr.token
        /\ resp'.okOps = NoFault) =>
          LET e == resp'.hdr.token IN
          IF HasUser(e)
          THEN users' = users
          ELSE \E u \in users' :
                  /\ u \notin users /\ users' = users \cup {u}
                  /\ u.email = e /\ u.role = "user" /\ u.isPremium = FALSE]_vars

\* ---- the coming request updates or deletes a lesson that exists
\* The request reached the ownership check of a stored lesson: the token
\* was verified and the lesson looked up.
MutatesLesson ==
    /\ resp'.op \in {"updateLesson", "deleteLesson"}
    /\ resp'.hdr.kind = "bearer" /\ TokenValid(resp'.hdr.token)
    /\ resp'.okOps >= 2
    /\ IsValid(resp'.id) /\ HasLesson(ObjectIdOf(resp'.id))

TargetLesson == FindLesson(ObjectIdOf(resp'.id))

\* The caller's stored role is admin / stored isPremium is true.
MutatorIsAdmin == \E u \in users : u.email = resp'.hdr.token /\ u.role = "admin"
MutatorIsPremium == \E u \in users : u.email = resp'.hdr.token /\ u.isPremium = TRUE
MutatorIsCreator == TargetLesson.creatorEmail = resp'.hdr.token

\* The request sets accessLevel to premium for a caller who is not premium.
PremiumRefused ==
    /\ resp'.op \in {"createLesson", "updateLesson"}
    /\ resp'.body.accessLevel = "premium"
    /\ ~(resp'.hdr.kind = "bearer" /\ TokenValid(resp'.hdr.token) /\ MutatorIsPremium)

C15_PremiumGate ==
    [][/\ PremiumRefused =>
            /\ lessons' = lessons
            /\ resp'.status \notin {200, 201}
            /\ (/\ resp'.hdr.kind = "bearer" /\ TokenValid(resp'.hdr.token)
                /\ resp'.okOps >= 2
                /\ resp'.op = "createLesson" =>
                      /\ Truthy(resp'.body.title) /\ Truthy(resp'.body.description)
                      /\ Truthy(resp'.body.category) /\ Truthy(resp'.body.emotionalTone)
                /\ resp'.op = "updateLesson" =>
                      IsValid(resp'.id) /\ HasLesson(ObjectIdOf(resp'.id)))
               => resp'.status = 403
       /\ \A l \in lessons' :
             (l.accessLevel = "premium"
              /\ ~\E k \in lessons : k._id = l._id /\ k.accessLevel = "premium") =>
                /\ resp'.op \in {"createLesson", "updateLesson"}
                /\ resp'.body.accessLevel = "premium"
                /\ MutatorIsPremium /\ resp'.hdr.token \in Emails]_vars

\* C15 witness: the creator, with a record and not premium, has been
\* refused an update to premium; the title sent along was not applied.
C15_Witness ==
    /\ resp.op = "updateLesson" /\ resp.status = 403
    /\ resp.hdr = Bearer("a@x.com") /\ resp.body.accessLevel = "premium"
    /\ HasUser("a@x.com") /\ ~FindUser("a@x.com").isPremium
    /\ \E l \in lessons :
          /\ l._id = ObjectIdOf(resp.id) /\ l.creatorEmail = "a@x.com"
          /\ l.accessLevel = "free" /\ l.title # resp.body.title

\* ---- the coming request is an update that is applied
Updates == resp'.op = "updateLesson" /\ resp'.status = 200

UpdatedTarget == CHOOSE l \in lessons' : l._id = ObjectIdOf(resp'.id)

\* The fields an update never writes.
KeepsProtected(old, new) ==
    /\ new._id = old._id
    /\ new.creatorEmail = old.creatorEmail
    /\ new.likes = old.likes
    /\ new.likesCount = old.likesCount
    /\ new.createdAt = old.createdAt

EditableFields ==
    {"title", "description", "category", "emotionalTone", "image", "visibility",
     "accessLevel"}

\* C16 (as claimed): an authorised update sets every field among title,
\* description, category, emotionalTone, image, visibility and accessLevel
\* that the request carries to the submitted value, keeps every field the
\* request does not carry, and never changes creatorEmail, likes,
\* likesCount or createdAt.
C16_UpdateSetsPresentFields ==
    [][Updates =>
          /\ \E l \in lessons' : l._id = ObjectIdOf(resp'.id)
          /\ \A f \in EditableFields :
                UpdatedTarget[f] = IF resp'.body[f] # Undefined THEN resp'.body[f]
                                   ELSE TargetLesson[f]
          /\ KeepsProtected(TargetLesson, UpdatedTarget)]_vars

\* C16 (amended): an authorised update sets image when the request carries
\* it, the empty string included, and each of title, description, category,
\* emotionalTone, visibility and accessLevel when the request carries it
\* with a non-empty value; a field carried as the empty string is kept like
\* an absent one; creatorEmail, likes, likesCount and createdAt never change.
C16_UpdateSetsNonEmptyFields ==
    [][Updates =>
          /\ \E l \in lessons' : l._id = ObjectIdOf(resp'.id)
          /\ \A f \in EditableFields :
                UpdatedTarget[f] =
                    IF resp'.body[f] # Undefined /\ (f = "image" \/ resp'.body[f] # "")
                    THEN resp'.body[f] ELSE TargetLesson[f]
          /\ KeepsProtected(TargetLesson, UpdatedTarget)]_vars

\* C16 witness: an update carrying an empty title and an empty image has
\* emptied the image and kept the title of a lesson that has a like.
C16_Witness ==
    /\ resp.op = "updateLesson" /\ resp.status = 200
    /\ resp.body.title = "" /\ resp.body.image = ""
    /\ \E l \in lessons :
          /\ l._id = ObjectIdOf(resp.id)
          /\ l.title # "" /\ l.image = "" /\ l.visibility = "private"
          /\ l.likes = {"b@x.com"} /\ l.likesCount = 1

\* C17: a lesson created with given title, description, category,
\* emotionalTone, image, visibility and accessLevel and fetched by id by
\* its creator right after is returned with every submitted field
\* unchanged, creatorEmail the creator, likesCount 0, no likes and
\* isFeatured = isReviewed = false, for every visibility and accessLevel.
C17_CreateThenFetch ==
    [][(/\ resp.op = "createLesson" /\ resp.status = 201
        /\ resp'.op = "getById"
        /\ resp'.hdr = resp.hdr
        /\ IsValid(resp'.id) /\ ObjectIdOf(resp'.id) = resp.lessonId) =>
          /\ resp'.status = 200
          /\ Len(resp'.lesson) = 1
          /\ LET got == resp'.lesson[1] IN
             /\ \A f \in EditableFields :
                   resp.body[f] # Undefined => got[f] = resp.body[f]
             /\ got._id = resp.lessonId
             /\ got.creatorEmail = resp.hdr.token
             /\ got.likesCount = 0 /\ got.likes = {}
             /\ got.isFeatured = FALSE /\ got.isReviewed = FALSE]_vars

\* C17 witness: the creator of a private premium lesson with an image has
\* been served it, no one having liked it.
C17_Witness ==
    /\ resp.op = "getById" /\ resp.status = 200 /\ resp.hdr = Bearer("a@x.com")
    /\ Len(resp.lesson) = 1
    /\ resp.lesson[1].creatorEmail = "a@x.com"
    /\ resp.lesson[1].visibility = "private"
    /\ resp.lesson[1].accessLevel = "premium"
    /\ resp.lesson[1].image = "sea.png"
    /\ resp.lesson[1].likes = {}

\* C18: the listing, which takes no credential, returns only stored lessons
\* whose visibility is public and, when a category is asked for, whose
\* category is that one; without a sort key, or with one that is none of
\* newest, oldest and popular, they come newest first; no private lesson is
\* listed for any filter, sort and page; and the first page holds every
\* matching lesson when they fit in it.
C18_ListingPublicOnly ==
    (resp.op = "listLessons" /\ resp.status = 200) =>
        LET out == resp.lessons
            q == resp.query
            asked == {l \in lessons :
                        /\ l.visibility = "public"
                        /\ q.category # Undefined => l.category = q.category
                        /\ q.search # Undefined => l.title = "Letting go"
                        /\ q.emotionalTone # Undefined => l.emotionalTone = q.emotionalTone
                        /\ q.creatorEmail # Undefined => l.creatorEmail = q.creatorEmail}
        IN /\ \A i \in 1..Len(out) : out[i] \in asked
           /\ \A i, j \in 1..Len(out) : i # j => out[i] # out[j]
           /\ q.sort \notin {"oldest", "popular"} =>
                 \A i, j \in 1..Len(out) : i < j => out[i].createdAt >= out[j].createdAt
           /\ (q.page = Undefined /\ q.limit = Undefined /\ Cardinality(asked) <= 10) =>
                 {out[i] : i \in 1..Len(out)} = asked

\* C18 witness: the listing of one category, no sort key given, has
\* returned two lessons, the newer first, while a private lesson of that
\* category is stored.
C18_Witness ==
    /\ resp.op = "listLessons" /\ resp.status = 200
    /\ resp.query.category = "grief" /\ resp.query.sort = Undefined
    /\ Len(resp.lessons) = 2
    /\ resp.lessons[1].createdAt > resp.lessons[2].createdAt
    /\ \E l \in lessons : l.visibility = "private" /\ l.category = "grief"

\* ---- routes behind verifyToken
GuardedOps ==
    {"syncUser", "listUsers", "setRole", "deleteUser", "adminListLessons",
     "adminDeleteLesson", "adminStats", "fileReport", "listReports", "resolveReport",
     "reportedLessons", "createLesson", "updateLesson", "deleteLesson", "toggleLike",
     "toggleFavorite"}

\* C19: a request to a route behind verifyToken without an Authorization
\* header, with a header that does not start with "Bearer ", or with a
\* token the identity provider rejects is answered 401, and no document of
\* any collection is created, changed or removed: the handler does not run.
C19_Unauthenticated401 ==
    [][(/\ resp'.op \in GuardedOps
        /\ ~(resp'.hdr.kind = "bearer" /\ resp'.hdr.token \in Emails)) =>
          /\ resp'.status = 401
          /\ Stored' = Stored
          /\ <<nextUserId, nextLessonId, nextReportId>>' =
                <<nextUserId, nextLessonId, nextReportId>>]_vars

\* C19 witness: a delete of a stored lesson that a report and a favorite
\* point to, sent with a token the identity provider rejects, has been
\* answered 401.
C19_Witness ==
    /\ resp.op = "deleteLesson" /\ resp.hdr = BadBearer /\ resp.status = 401
    /\ HasLesson(ObjectIdOf(resp.id))
    /\ \E r \in reports : r.lessonId = ObjectIdOf(resp.id)
    /\ ExistingFavorite("a@x.com", ObjectIdOf(resp.id))

\* ---- admin routes
AdminOps ==
    {"listUsers", "setRole", "deleteUser", "adminListLessons", "adminDeleteLesson",
     "adminStats", "listReports", "resolveReport", "reportedLessons"}

\* The coming request is an admin route called with a verified credential
\* by a caller whose stored role is not admin (or who has no record).
NonAdminCall ==
    /\ resp'.op \in AdminOps
    /\ resp'.hdr.kind = "bearer" /\ TokenValid(resp'.hdr.token)
    /\ resp'.okOps >= 1
    /\ ~\E u \in users : u.email = resp'.hdr.token /\ u.role = "admin"

\* C20: every admin route answers 403 to a signed-in caller whose stored
\* role is not admin, a caller without a user record included, and then
\* changes no user, lesson or report; a stored role changes only by the
\* set-role route, called by an admin, to the role admin or user it was
\* given; and a new record starts with role user.
C20_AdminOnly ==
    [][/\ NonAdminCall => (resp'.status = 403 /\ Stored' = Stored)
       /\ \A u \in users, v \in users' :
             (u._id = v._id /\ u.role # v.role) =>
                /\ resp'.op = "setRole" /\ resp'.status = 200
                /\ \E c \in users : c.email = resp'.hdr.token /\ c.role = "admin"
                /\ resp'.role \in {"admin", "user"}
                /\ v.role = resp'.role
                /\ u._id = ObjectIdOf(resp'.id)
       /\ \A v \in users' :
             (~\E u \in users : u._id = v._id) => v.role = "user"]_vars

\* C20 witness: a user with a record and role user has asked to be made
\* admin, has been answered 403 and still has role user, while a report and
\* a lesson are stored.
C20_Witness ==
    /\ resp.op = "setRole" /\ resp.hdr = Bearer("a@x.com") /\ resp.role = "admin"
    /\ resp.status = 403
    /\ HasUser("a@x.com") /\ FindUser("a@x.com").role = "user"
    /\ FindUser("a@x.com")._id = ObjectIdOf(resp.id)
    /\ lessons # {} /\ reports # {}

\* ---- requests during which the store fails
\* The answer (status and error) the coming request would get from a store
\* that does not fail.
UnfailedAnswer ==
    LET q == resp' IN
    CASE q.op = "getById" ->
           LET r == GetByIdResult(q.hdr, q.id, NoFault) IN <<r.status, r.error>>
      [] q.op = "syncUser" -> <<SyncUserResult(q.hdr, q.email, NoFault).status, "">>
      [] q.op = "createLesson" -> <<CreateLessonResult(q.hdr, q.body, NoFault).status, "">>
      [] q.op = "toggleLike" -> <<ToggleLikeResult(q.hdr, q.id, NoFault).status, "">>
      [] q.op = "deleteLesson" -> <<DeleteLessonResult(q.hdr, q.id, NoFault).status, "">>
      [] OTHER -> <<q.status, "">>

\* The answer the coming request gets.
GivenAnswer ==
    <<resp'.status, IF resp'.op = "getById" THEN resp'.error ELSE "">>

\* C21: a request during which a store call fails is answered 500, whichever
\* call it is: the user lookup of verifyToken and the caller lookups of the
\* visibility and premium checks of GET /api/lessons/:id included.  So a
\* request gets the answer it would get from a store that does not fail, or
\* 500.
C21_StoreFailure500 ==
    [][(resp'.op \in {"getById", "syncUser", "createLesson", "toggleLike",
                      "deleteLesson"}
        /\ resp'.okOps < NoFault) =>
          (resp'.status = 500 \/ GivenAnswer = UnfailedAnswer)]_vars

\* ---- favorites listed
\* C22: GET /api/my-favorites answers with exactly the stored lessons that
\* have a favorites record of the caller's email and pass the category and
\* emotionalTone filters of the query (a filter that is absent or empty
\* passes all): so a lesson deleted after it was favorited is not listed,
\* every entry is a whole stored lesson, and total counts the entries.
C22_FavoritesListed ==
    (resp.op = "listFavorites" /\ resp.status = 200) =>
       /\ resp.lessons =
            {l \in lessons :
                /\ favorites[<<resp.hdr.token, l._id>>] > 0
                /\ resp.category \in {Undefined, "", l.category}
                /\ resp.emotionalTone \in {Undefined, "", l.emotionalTone}}
       /\ \A id \in FavRecordIds(resp.hdr.token) :
             ~HasLesson(id) => ~\E x \in resp.lessons : x._id = id
       /\ resp.total = Cardinality(resp.lessons)

\* C22 witness: the caller has favorited two lessons, one of them has been
\* deleted since and its favorites record is still stored; the listing
\* holds the other one alone.
C22_Witness ==
    /\ resp.op = "listFavorites" /\ resp.status = 200
    /\ resp.category = Undefined
    /\ \E id \in FavRecordIds(resp.hdr.token) : ~HasLesson(id)
    /\ Cardinality(resp.lessons) = 1

\* ---- likes by requests that interleave
\* C23: likesCount is the number of emails in likes, and is not negative, in
\* every lesson in every reachable state, also when toggleLike requests on
\* one lesson interleave between the read of the lesson and its update.
C23_LikesCountUnderRaces ==
    \A l \in lessons : l.likesCount = Cardinality(l.likes) /\ l.likesCount >= 0

\* ---- favorites toggled by requests that interleave
\* C24: whenever no toggleFavorite request is in flight, the favorites
\* collection and users.favorites agree, for every caller who has a user
\* record, on the lessons that are favorites, and the favorites collection
\* holds at most one record for a caller and a lesson: a disagreement lasts
\* no longer than the overlapping requests.
C24_FavoritesConverge ==
    inflight = {} =>
       \A u \in users :
          /\ FavRecordIds(u.email) = FavArrayIds(u.email)
          /\ \A id \in LessonIds : favorites[<<u.email, id>>] <= 1

\* ---- first requests that interleave
OneRecord(e) == Cardinality(UsersByEmail(e)) <= 1

\* C25 as stated: the users collection holds at most one record per email
\* in every reachable state, also when two first requests for one new email
\* both pass the lookup before either inserts.
C25_OneRecordPerEmail == \A e \in Emails : OneRecord(e)

\* The coming step is the insert of a request that has been overtaken: its
\* lookup found no record for e, and a record for e is stored by now.
OvertakenInsert(e) ==
    \E r \in inflight \ inflight' :
       r.op = "syncUser" /\ r.email = e /\ ~r.existingUser /\ HasUser(e)

\* C25 amended: every step keeps an email at one record at most, but the
\* insert of a request that another request for the same email has overtaken
\* between its lookup and its insert.
C25_OneRecordUnlessOvertaken ==
    [][\A e \in Emails :
          (OneRecord(e) /\ ~OvertakenInsert(e)) => OneRecord(e)']_vars

\* C25 witness: a first request for a@x.com has inserted the one record of
\* that email and been answered 201 while another first request for
\* a@x.com, which has looked the email up before, is still suspended.
C25_Witness ==
    /\ resp.op = "syncUser" /\ resp.status = 201 /\ resp.email = "a@x.com"
    /\ Cardinality(UsersByEmail("a@x.com")) = 1
    /\ \E q \in inflight : q.op = "syncUser" /\ q.email = "a@x.com" /\ ~q.existingUser

\* ---- premium once paid
\* The caller with email e is premium: the record verifyToken finds says so.
Premium(e) == HasUser(e) /\ FindUser(e).isPremium

\* A checkout request of a premium caller is answered 400 and no session is
\* asked of the payment provider.
PremiumCheckoutRefused ==
    (resp'.op = "createCheckout" /\ resp'.hdr.kind = "bearer"
     /\ Premium(resp'.hdr.token)) =>
       (resp'.status = 400 /\ ~resp'.requested /\ sessions' = sessions)

\* C26 as stated: a caller whom a verified checkout-completed callback has
\* made premium (no other step sets isPremium) is premium in every later
\* state, and every later checkout request of that caller is answered 400
\* without a session being asked of the payment provider.
C26_PremiumForGood ==
    [][/\ \A e \in Emails : Premium(e) => Premium(e)'
       /\ PremiumCheckoutRefused]_vars

\* C26 amended: a record whose isPremium is true keeps it for as long as the
\* record is stored (an admin's delete of the user removes it, and a record
\* created afterwards for the same email starts without it), and a checkout
\* request of a caller whose record says premium is answered 400 without a
\* session being asked of the payment provider.
C26_PremiumWhileStored ==
    [][/\ \A u \in users, v \in users' :
             (u._id = v._id /\ u.isPremium) => v.isPremium
       /\ \A v \in users' :
             (v.isPremium /\ ~\E u \in users : u._id = v._id /\ u.isPremium) =>
                resp'.op = "webhook"
       /\ PremiumCheckoutRefused]_vars

\* C26 witness: a record that the callback made premium has since had its
\* name changed, its role set to admin, a lesson liked and a favorite added,
\* and its caller's checkout request has been answered 400.
C26_Witness ==
    /\ resp.op = "createCheckout" /\ resp.status = 400 /\ ~resp.requested
    /\ Premium("a@x.com")
    /\ FindUser("a@x.com").name = "Ada" /\ FindUser("a@x.com").role = "admin"
    /\ FindUser("a@x.com").favorites # {}
    /\ \E l \in lessons : "a@x.com" \in l.likes

\* ---- moderation flags
\* The caller of the coming request has a record whose role is admin.
CallerIsAdminNow ==
    \E u \in users : u.email = resp'.hdr.token /\ u.role = "admin"

\* C27: a lesson is created with isFeatured and isReviewed false; a flag of
\* a stored lesson changes only in an update answered 200 whose caller has
\* the role admin, to the submitted value; and an update by the creator
\* without that role that carries a flag leaves both flags as they are and
\* sets the title and the visibility it carries.
C27_FlagsAdminOnly ==
    [][/\ \A m \in lessons' :
             (~\E l \in lessons : l._id = m._id) => (~m.isFeatured /\ ~m.isReviewed)
       /\ \A l \in lessons, m \in lessons' :
             (l._id = m._id
              /\ <<l.isFeatured, l.isReviewed>> # <<m.isFeatured, m.isReviewed>>) =>
                /\ resp'.op = "updateLesson" /\ resp'.status = 200
                /\ ObjectIdOf(resp'.id) = l._id
                /\ CallerIsAdminNow
                /\ l.isFeatured # m.isFeatured =>
                      m.isFeatured = (resp'.body.isFeatured = "true")
                /\ l.isReviewed # m.isReviewed =>
                      m.isReviewed = (resp'.body.isReviewed = "true")
       /\ \A l \in lessons, m \in lessons' :
             (/\ resp'.op = "updateLesson" /\ resp'.status = 200
              /\ ObjectIdOf(resp'.id) = l._id /\ l._id = m._id
              /\ l.creatorEmail = resp'.hdr.token /\ ~CallerIsAdminNow) =>
                /\ m.isFeatured = l.isFeatured /\ m.isReviewed = l.isReviewed
                /\ Truthy(resp'.body.title) => m.title = resp'.body.title
                /\ Truthy(resp'.body.visibility) => m.visibility = resp'.body.visibility]_vars

\* C27 witness: the creator, whose role is user, has sent an update with
\* isFeatured and a new title for a lesson an admin has marked reviewed; it
\* was answered 200, the title is set and the lesson is not featured.
C27_Witness ==
    /\ resp.op = "updateLesson" /\ resp.status = 200
    /\ resp.hdr = Bearer("a@x.com") /\ resp.body.isFeatured = "true"
    /\ HasUser("a@x.com") /\ FindUser("a@x.com").role = "user"
    /\ \E l \in lessons :
          /\ l._id = ObjectIdOf(resp.id) /\ l.creatorEmail = "a@x.com"
          /\ l.title = "Holding on" /\ ~l.isFeatured /\ l.isReviewed

\* ---- what the routes that return lessons give away
\* The lessons the last response carries, and the credential it was given
\* to (the listing, the related lessons and the analytics read none).
ReturnedLessons ==
    IF resp.op \in {"listLessons", "relatedLessons", "analytics"}
    THEN {resp.lessons[i] : i \in 1..Len(resp.lessons)}
    ELSE IF resp.op = "getById" THEN {resp.lesson[i] : i \in 1..Len(resp.lesson)}
    ELSE IF resp.op = "listFavorites" THEN resp.lessons
    ELSE {}

ReturnedTo ==
    IF resp.op \in {"getById", "listFavorites"} THEN resp.hdr ELSE NoHeader

ReaderKnown == ReturnedTo.kind = "bearer" /\ TokenValid(ReturnedTo.token)

\* C28: no response carries a lesson whose visibility is private to a caller
\* who is neither its creator nor an admin: not getById, not the listing,
\* the related lessons or the analytics, and not GET /api/my-favorites for
\* a caller who has made another user's private lesson a favorite.
C28_PrivateNeverReturned ==
    \A l \in ReturnedLessons :
       l.visibility = "private" =>
          /\ ReaderKnown
          /\ \/ l.creatorEmail = ReturnedTo.token
             \/ \E u \in users : u.email = ReturnedTo.token /\ u.role = "admin"

\* C29: no response carries a lesson whose accessLevel is premium, and so
\* its description, to an anonymous caller or to a caller whose isPremium is
\* not true: the listing, the related lessons, the analytics and the
\* favorites give no more of it than getById gives the same caller.
C29_PremiumNeverReturned ==
    \A l \in ReturnedLessons :
       l.accessLevel = "premium" =>
          /\ ReaderKnown
          /\ \E u \in users : u.email = ReturnedTo.token /\ u.isPremium

\* ---- a payment that was taken upgrades the caller who paid
\* C30: once the signature-verified checkout.session.completed event of a
\* session that createCheckout returned has been processed (acknowledged,
\* the store answering), a user record with the caller's email exists and
\* its isPremium is true, whether or not the caller had a record when the
\* session was created.
C30_PaidIsPremium ==
    (/\ resp.op = "webhook" /\ resp.sigValid /\ resp.status = 200
     /\ resp.okOps = NoFault
     /\ resp.event.type = CheckoutCompleted
     /\ SessionEmail(resp.event.session) \in sessions) =>
        Premium(SessionEmail(resp.event.session))

====
